---- MODULE Spec2Model ----
(***************************************************************************)
(* Model of the workflow engine of package flow (src/flow/flow.go).        *)
(*                                                                         *)
(* The heap holds every Node value (doNode, conditionalNode, sequenceNode, *)
(* parallelNode and Flow); a reference is an index into the heap and NIL   *)
(* is the nil Node.  The builder operations construct the node graph, Run  *)
(* starts the main goroutine, and the goroutines then execute run methods  *)
(* frame by frame.  Callbacks (action functions, predicates, interceptors) *)
(* are inputs: their outcome is chosen when they are called.  Every Node    *)
(* value is handed to at most one builder call (free holds the values not  *)
(* yet handed over), so the graph that is run is a tree of fresh nodes.    *)
(* ctx is the state of the context.Context given to Run: live, or          *)
(* cancelled / past its deadline.                                          *)
(*                                                                         *)
(* The last part models StatsV2Client.Counter of package clients           *)
(* (src/clients/stats.go) called from several goroutines.                  *)
(***************************************************************************)
EXTENDS Naturals, Integers, Sequences, FiniteSets, TLC

VARIABLES heap, free, nint, phase, threads, chans, log, ctx

\* package clients (src/clients/stats.go): the package-level map and mutex,
\* the default Prometheus registry, the counters created so far, the
\* goroutines calling StatsV2Client.Counter, and the MustRegister calls made
VARIABLES registeredCache, cacheMutex, registry, ncounters, callers, registerCalls

StatsVars == <<registeredCache, cacheMutex, registry, ncounters, callers, registerCalls>>

vars == <<heap, free, nint, phase, threads, chans, log, ctx, StatsVars>>

\* ---- bounds ----
MaxNodes == 4      \* heap cells (Node values ever constructed)
MaxInts == 2       \* interceptors ever registered
MaxArgs == 2       \* arguments passed to InSequence / InParallel
MaxCallers == 3    \* goroutines calling StatsV2Client.Counter
MaxNames == 2      \* scoped counter names

NIL == 0
Root == 1

\* ---- package clients: state before any Counter call ----
Names == 1..MaxNames
Callers == 1..MaxCallers
NilCounter == 0
\* registeredCache = make(map[string]prometheus.Counter), an unlocked mutex,
\* an empty default registry, no call in progress
StatsInit ==
  /\ registeredCache = [n \in Names |-> NilCounter]
  /\ cacheMutex = 0
  /\ registry = {}
  /\ ncounters = 0
  /\ callers = [c \in Callers |->
                  [pc |-> "idle", name |-> 0, counter |-> NilCounter, ret |-> NilCounter]]
  /\ registerCalls = <<>>

\* ---- error values ----
NilErr == <<"nil", 0, 0>>
FnErr(n) == <<"fn", n, 0>>
IntErr(i, n) == <<"int", i, n>>

\* ---- heap ----
MkNode(kind) ==
  [kind |-> kind, next |-> NIL, branch |-> NIL, nodes |-> <<>>,
   head |-> NIL, tail |-> NIL,
   flowInterceptors |-> <<>>, nodeInterceptors |-> <<>>]

\* baseNode.setNext / Flow.setNext on heap h
RECURSIVE setNext(_, _, _)
setNext(h, n, next) ==
  IF h[n].kind = "flow"
  THEN IF h[n].tail # NIL
       THEN [setNext(h, h[n].tail, next) EXCEPT ![n].tail = next]
       ELSE h
  ELSE [h EXCEPT ![n].next = next]

\* baseNode.getNext / Flow.getNext
RECURSIVE getNext(_, _)
getNext(h, n) ==
  IF h[n].kind = "flow"
  THEN IF h[n].tail # NIL THEN getNext(h, h[n].tail) ELSE NIL
  ELSE h[n].next

\* appendNode that links the node but leaves tail where it was
appendNode_keepTail(h, f, node) ==
  IF h[f].head = NIL
  THEN [h EXCEPT ![f].head = node, ![f].tail = node]
  ELSE setNext(h, h[f].tail, node)

appendNode(h, f, node) ==
  IF h[f].head = NIL
  THEN [h EXCEPT ![f].head = node, ![f].tail = node]
  ELSE [setNext(h, h[f].tail, node) EXCEPT ![f].tail = node]

\* appendFlow that appends the other flow as one opaque node
appendFlow_wrap(h, f, flowNode) == appendNode(h, f, flowNode)

\* appendFlow that takes the chain over: the other flow is left empty
appendFlow_takeOver(h, f, flowNode) ==
  IF h[flowNode].head = NIL
  THEN h
  ELSE IF h[f].head = NIL
       THEN [h EXCEPT ![f].head = h[flowNode].head, ![f].tail = h[flowNode].tail,
                      ![flowNode].head = NIL, ![flowNode].tail = NIL]
       ELSE [setNext(h, h[f].tail, h[flowNode].head)
               EXCEPT ![f].tail = h[flowNode].tail,
                      ![flowNode].head = NIL, ![flowNode].tail = NIL]

appendFlow(h, f, flowNode) ==
  IF h[flowNode].head = NIL
  THEN h
  ELSE IF h[f].head = NIL
       THEN [h EXCEPT ![f].head = h[flowNode].head, ![f].tail = h[flowNode].tail]
       ELSE [setNext(h, h[f].tail, h[flowNode].head) EXCEPT ![f].tail = h[flowNode].tail]

\* the argument list taken as it is, nil entries included
filterNil_keepAll(args) == args

\* the nil filter of InSequence / InParallel
RECURSIVE filterNil(_)
filterNil(args) ==
  IF args = <<>> THEN <<>>
  ELSE IF Head(args) # NIL
       THEN <<Head(args)>> \o filterNil(Tail(args))
       ELSE filterNil(Tail(args))

\* the chain reachable from n through next links
RECURSIVE Chain(_, _, _)
Chain(h, n, fuel) ==
  IF n = NIL \/ fuel = 0 THEN <<>>
  ELSE <<n>> \o Chain(h, getNext(h, n), fuel - 1)

ChainOf(f) == Chain(heap, heap[f].head, MaxNodes + 1)

Range(s) == {s[j] : j \in 1..Len(s)}

\* flows a builder call may be made on: the root flow and the flows that
\* have not yet been handed to another builder call
Buildable == {Root} \cup {g \in free : heap[g].kind = "flow"}

\* argument lists of InSequence / InParallel: free nodes or nil, no node twice
ArgLists ==
  {a \in UNION {[1..k -> free \cup {NIL}] : k \in 0..MaxArgs} :
     \A i, j \in 1..Len(a) : (i # j /\ a[i] # NIL) => a[i] # a[j]}

Building == phase = "build"
CanAlloc == Len(heap) < MaxNodes
RunVarsUnchanged == UNCHANGED <<phase, threads, chans, log, ctx, StatsVars>>

\* ---- builder operations ----
\* what the methods of flow f do to the heap
Flow_Do(h, f) == appendNode(Append(h, MkNode("do")), f, Len(h) + 1)

Flow_If(h, f, trueBranch) ==
  appendNode(Append(h, [MkNode("cond") EXCEPT !.branch = trueBranch]), f, Len(h) + 1)

\* Then whose type switch takes a nil Node for a Node
Flow_Then_nilIsNode(h, f, node) ==
  IF node # NIL /\ h[node].kind = "flow" THEN appendFlow(h, f, node)
  ELSE appendNode(h, f, node)

\* a nil Node matches no case of the type switch: Then panics
Flow_Then_panics(node) == node = NIL

Flow_Then(h, f, node) ==
  IF Flow_Then_panics(node) THEN h
  ELSE IF h[node].kind = "flow" THEN appendFlow(h, f, node)
  ELSE appendNode(h, f, node)

Flow_AddFlowInterceptor(h, f, i) ==
  [h EXCEPT ![f].flowInterceptors = Append(@, i)]

\* AddNodeInterceptor that registers the interceptor only while the flow
\* has no node yet
Flow_AddNodeInterceptor_onlyEmpty(h, f, i) ==
  IF h[f].head = NIL THEN [h EXCEPT ![f].nodeInterceptors = Append(@, i)] ELSE h

Flow_AddNodeInterceptor(h, f, i) ==
  [h EXCEPT ![f].nodeInterceptors = Append(@, i)]

New ==
  /\ Building /\ CanAlloc
  /\ heap' = Append(heap, MkNode("flow"))
  /\ free' = free \cup {Len(heap) + 1}
  /\ UNCHANGED nint /\ RunVarsUnchanged

FlowDo(f) ==
  /\ Building /\ CanAlloc
  /\ heap' = Flow_Do(heap, f)
  /\ UNCHANGED <<free, nint>> /\ RunVarsUnchanged

FlowIf(f, trueBranch) ==
  /\ Building /\ CanAlloc
  /\ trueBranch # f
  /\ heap' = Flow_If(heap, f, trueBranch)
  /\ free' = free \ {trueBranch}
  /\ UNCHANGED nint /\ RunVarsUnchanged

Then(f, node) ==
  /\ Building
  /\ node # f
  /\ heap' = Flow_Then(heap, f, node)
  /\ free' = free \ {node}
  /\ UNCHANGED nint /\ RunVarsUnchanged

Do ==
  /\ Building /\ CanAlloc
  /\ heap' = Append(heap, MkNode("do"))
  /\ free' = free \cup {Len(heap) + 1}
  /\ UNCHANGED nint /\ RunVarsUnchanged

InSequence(args) ==
  /\ Building /\ CanAlloc
  /\ heap' = Append(heap, [MkNode("seq") EXCEPT !.nodes = filterNil(args)])
  /\ free' = (free \ Range(args)) \cup {Len(heap) + 1}
  /\ UNCHANGED nint /\ RunVarsUnchanged

InParallel(args) ==
  /\ Building /\ CanAlloc
  /\ heap' = Append(heap, [MkNode("par") EXCEPT !.nodes = filterNil(args)])
  /\ free' = (free \ Range(args)) \cup {Len(heap) + 1}
  /\ UNCHANGED nint /\ RunVarsUnchanged

AddFlowInterceptor(f) ==
  /\ Building /\ nint < MaxInts
  /\ nint' = nint + 1
  /\ heap' = Flow_AddFlowInterceptor(heap, f, nint + 1)
  /\ UNCHANGED free /\ RunVarsUnchanged

AddNodeInterceptor(f) ==
  /\ Building /\ nint < MaxInts
  /\ nint' = nint + 1
  /\ heap' = Flow_AddNodeInterceptor(heap, f, nint + 1)
  /\ UNCHANGED free /\ RunVarsUnchanged

\* ---- execution: frames, goroutines, channels ----
\* A frame is one activation of a run method (or of a goroutine body); pc is
\* the place in that method, k a loop index, val the error last returned to
\* it, b the boolean last returned to it, aid the errChan/WaitGroup it made.
RunFn(n) ==
  CASE heap[n].kind = "do" -> "doNode.run"
    [] heap[n].kind = "cond" -> "conditionalNode.run"
    [] heap[n].kind = "seq" -> "sequenceNode.run"
    [] heap[n].kind = "par" -> "parallelNode.run"
    [] heap[n].kind = "flow" -> "Flow.run"

Frame(fn, n, ints, aid) ==
  [fn |-> fn, node |-> n, pc |-> "start", ints |-> ints, k |-> 1,
   val |-> NilErr, b |-> FALSE, aid |-> aid]

StartFrame(n, ints) == Frame(RunFn(n), n, ints, 0)

\* what a frame does next
Stay == [op |-> "stay", frame |-> <<>>, node |-> NIL, ints |-> <<>>, val |-> NilErr]
Goto(fr) == [op |-> "goto", frame |-> fr, node |-> NIL, ints |-> <<>>, val |-> NilErr]
Call(fr, n, ints) == [op |-> "call", frame |-> fr, node |-> n, ints |-> ints, val |-> NilErr]
TailCall(n, ints) == [op |-> "tail", frame |-> <<>>, node |-> n, ints |-> ints, val |-> NilErr]
Ret(v) == [op |-> "ret", frame |-> <<>>, node |-> NIL, ints |-> <<>>, val |-> v]

At(fr, pc) == [fr EXCEPT !.pc = pc]
AtK(fr, pc, k) == [fr EXCEPT !.pc = pc, !.k = k]

\* "if n.next != nil { return n.next.run(ctx, interceptors) }; return nil"
runNext(fr) ==
  IF heap[fr.node].next # NIL
  THEN TailCall(heap[fr.node].next, fr.ints)
  ELSE Ret(NilErr)

\* doNode.run that gives up with the context's error when the context is
\* cancelled, instead of calling fn
doNode_run_checkCtx(fr) ==
  CASE fr.pc = "start" -> Goto(AtK(fr, "int", 1))
    [] fr.pc = "int" -> IF fr.k <= Len(fr.ints) THEN Stay ELSE Goto(At(fr, "fn"))
    [] fr.pc = "intret" -> IF fr.val # NilErr THEN Ret(fr.val) ELSE Goto(AtK(fr, "int", fr.k + 1))
    [] fr.pc = "fn" -> IF ctx = "cancelled" THEN Ret(<<"ctx", 0, 0>>) ELSE Stay
    [] fr.pc = "fnret" -> IF fr.val # NilErr THEN Ret(fr.val) ELSE runNext(fr)

\* doNode.run that goes on to the successor although fn failed
doNode_run_ignoreFnErr(fr) ==
  CASE fr.pc = "start" -> Goto(AtK(fr, "int", 1))
    [] fr.pc = "int" -> IF fr.k <= Len(fr.ints) THEN Stay ELSE Goto(At(fr, "fn"))
    [] fr.pc = "intret" -> IF fr.val # NilErr THEN Ret(fr.val)
                           ELSE Goto(AtK(fr, "int", fr.k + 1))
    [] fr.pc = "fn" -> Stay
    [] fr.pc = "fnret" -> runNext(fr)

doNode_run(fr) ==
  CASE fr.pc = "start" -> Goto(AtK(fr, "int", 1))
    [] fr.pc = "int" -> IF fr.k <= Len(fr.ints) THEN Stay ELSE Goto(At(fr, "fn"))
    [] fr.pc = "intret" -> IF fr.val # NilErr THEN Ret(fr.val)
                           ELSE Goto(AtK(fr, "int", fr.k + 1))
    [] fr.pc = "fn" -> Stay
    [] fr.pc = "fnret" -> IF fr.val # NilErr THEN Ret(fr.val) ELSE runNext(fr)

\* conditionalNode.run that goes on to its successor after a failing branch
conditionalNode_run_ignoreBranchErr(fr) ==
  CASE fr.pc = "start" -> Goto(AtK(fr, "int", 1))
    [] fr.pc = "int" -> IF fr.k <= Len(fr.ints) THEN Stay ELSE Goto(At(fr, "cond"))
    [] fr.pc = "intret" -> IF fr.val # NilErr THEN Ret(fr.val)
                           ELSE Goto(AtK(fr, "int", fr.k + 1))
    [] fr.pc = "cond" -> Stay
    [] fr.pc = "condret" ->
         IF fr.b /\ heap[fr.node].branch # NIL
         THEN Call(At(fr, "branchret"), heap[fr.node].branch, fr.ints)
         ELSE runNext(fr)
    [] fr.pc = "branchret" -> runNext(fr)

\* conditionalNode.run that runs the branch whatever the predicate returned
conditionalNode_run_alwaysBranch(fr) ==
  CASE fr.pc = "start" -> Goto(AtK(fr, "int", 1))
    [] fr.pc = "int" -> IF fr.k <= Len(fr.ints) THEN Stay ELSE Goto(At(fr, "cond"))
    [] fr.pc = "intret" -> IF fr.val # NilErr THEN Ret(fr.val)
                           ELSE Goto(AtK(fr, "int", fr.k + 1))
    [] fr.pc = "cond" -> Stay
    [] fr.pc = "condret" ->
         IF heap[fr.node].branch # NIL
         THEN Call(At(fr, "branchret"), heap[fr.node].branch, fr.ints)
         ELSE runNext(fr)
    [] fr.pc = "branchret" -> IF fr.val # NilErr THEN Ret(fr.val) ELSE runNext(fr)

conditionalNode_run(fr) ==
  CASE fr.pc = "start" -> Goto(AtK(fr, "int", 1))
    [] fr.pc = "int" -> IF fr.k <= Len(fr.ints) THEN Stay ELSE Goto(At(fr, "cond"))
    [] fr.pc = "intret" -> IF fr.val # NilErr THEN Ret(fr.val)
                           ELSE Goto(AtK(fr, "int", fr.k + 1))
    [] fr.pc = "cond" -> Stay
    [] fr.pc = "condret" ->
         IF fr.b /\ heap[fr.node].branch # NIL
         THEN Call(At(fr, "branchret"), heap[fr.node].branch, fr.ints)
         ELSE runNext(fr)
    [] fr.pc = "branchret" -> IF fr.val # NilErr THEN Ret(fr.val) ELSE runNext(fr)

\* sequenceNode.run that wraps a sub-node's error in an error of its own
sequenceNode_run_wrapErr(fr) ==
  CASE fr.pc = "start" -> Goto(AtK(fr, "loop", 1))
    [] fr.pc = "loop" ->
         IF fr.k <= Len(heap[fr.node].nodes)
         THEN IF heap[fr.node].nodes[fr.k] # NIL
              THEN Call(At(fr, "subret"), heap[fr.node].nodes[fr.k], fr.ints)
              ELSE Goto(AtK(fr, "loop", fr.k + 1))
         ELSE runNext(fr)
    [] fr.pc = "subret" -> IF fr.val # NilErr THEN Ret(<<"seq", fr.node, fr.k>>)
                           ELSE Goto(AtK(fr, "loop", fr.k + 1))

\* sequenceNode.run that goes on with the next sub-node after a failure
sequenceNode_run_ignoreErr(fr) ==
  CASE fr.pc = "start" -> Goto(AtK(fr, "loop", 1))
    [] fr.pc = "loop" ->
         IF fr.k <= Len(heap[fr.node].nodes)
         THEN IF heap[fr.node].nodes[fr.k] # NIL
              THEN Call(At(fr, "subret"), heap[fr.node].nodes[fr.k], fr.ints)
              ELSE Goto(AtK(fr, "loop", fr.k + 1))
         ELSE runNext(fr)
    [] fr.pc = "subret" -> Goto(AtK(fr, "loop", fr.k + 1))

sequenceNode_run(fr) ==
  CASE fr.pc = "start" -> Goto(AtK(fr, "loop", 1))
    [] fr.pc = "loop" ->
         IF fr.k <= Len(heap[fr.node].nodes)
         THEN IF heap[fr.node].nodes[fr.k] # NIL
              THEN Call(At(fr, "subret"), heap[fr.node].nodes[fr.k], fr.ints)
              ELSE Goto(AtK(fr, "loop", fr.k + 1))
         ELSE runNext(fr)
    [] fr.pc = "subret" -> IF fr.val # NilErr THEN Ret(fr.val)
                           ELSE Goto(AtK(fr, "loop", fr.k + 1))

\* parallelNode.run that skips an error while a later one is waiting in the
\* channel, and so returns the error reported last
parallelNode_run_lastErr(fr) ==
  CASE fr.pc = "start" -> Goto(AtK(fr, "int", 1))
    [] fr.pc = "int" -> IF fr.k <= Len(fr.ints) THEN Stay ELSE Goto(At(fr, "make"))
    [] fr.pc = "intret" -> IF fr.val # NilErr THEN Ret(fr.val)
                           ELSE Goto(AtK(fr, "int", fr.k + 1))
    [] fr.pc = "make" -> Stay
    [] fr.pc = "spawn" -> IF fr.k <= Len(heap[fr.node].nodes) THEN Stay
                          ELSE Goto(At(fr, "closer"))
    [] fr.pc = "closer" -> Stay
    [] fr.pc = "recv" -> Stay
    [] fr.pc = "recvret" ->
         IF fr.b
         THEN IF fr.val # NilErr /\ Len(chans[fr.aid].buf) < 2 THEN Ret(fr.val)
              ELSE Goto(At(fr, "recv"))
         ELSE runNext(fr)

\* parallelNode.run that returns nil without running its successor when the
\* node has no sub-nodes
parallelNode_run_emptyReturns(fr) ==
  CASE fr.pc = "start" -> Goto(AtK(fr, "int", 1))
    [] fr.pc = "int" -> IF fr.k <= Len(fr.ints) THEN Stay ELSE Goto(At(fr, "make"))
    [] fr.pc = "intret" -> IF fr.val # NilErr THEN Ret(fr.val)
                           ELSE Goto(AtK(fr, "int", fr.k + 1))
    [] fr.pc = "make" -> Stay
    [] fr.pc = "spawn" -> IF fr.k <= Len(heap[fr.node].nodes) THEN Stay
                          ELSE Goto(At(fr, "closer"))
    [] fr.pc = "closer" -> Stay
    [] fr.pc = "recv" -> Stay
    [] fr.pc = "recvret" ->
         IF fr.b
         THEN IF fr.val # NilErr THEN Ret(fr.val) ELSE Goto(At(fr, "recv"))
         ELSE IF heap[fr.node].nodes = <<>> THEN Ret(NilErr) ELSE runNext(fr)

\* parallelNode.run that goes on to its successor without reading the channel
parallelNode_run_noWait(fr) ==
  CASE fr.pc = "start" -> Goto(AtK(fr, "int", 1))
    [] fr.pc = "int" -> IF fr.k <= Len(fr.ints) THEN Stay ELSE Goto(At(fr, "make"))
    [] fr.pc = "intret" -> IF fr.val # NilErr THEN Ret(fr.val)
                           ELSE Goto(AtK(fr, "int", fr.k + 1))
    [] fr.pc = "make" -> Stay
    [] fr.pc = "spawn" -> IF fr.k <= Len(heap[fr.node].nodes) THEN Stay
                          ELSE Goto(At(fr, "closer"))
    [] fr.pc = "closer" -> Stay
    [] fr.pc = "recv" -> runNext(fr)
    [] fr.pc = "recvret" ->
         IF fr.b
         THEN IF fr.val # NilErr THEN Ret(fr.val) ELSE Goto(At(fr, "recv"))
         ELSE runNext(fr)

\* parallelNode.run that drops the errors it receives
parallelNode_run_dropErr(fr) ==
  CASE fr.pc = "start" -> Goto(AtK(fr, "int", 1))
    [] fr.pc = "int" -> IF fr.k <= Len(fr.ints) THEN Stay ELSE Goto(At(fr, "make"))
    [] fr.pc = "intret" -> IF fr.val # NilErr THEN Ret(fr.val)
                           ELSE Goto(AtK(fr, "int", fr.k + 1))
    [] fr.pc = "make" -> Stay
    [] fr.pc = "spawn" -> IF fr.k <= Len(heap[fr.node].nodes) THEN Stay
                          ELSE Goto(At(fr, "closer"))
    [] fr.pc = "closer" -> Stay
    [] fr.pc = "recv" -> Stay
    [] fr.pc = "recvret" -> IF fr.b THEN Goto(At(fr, "recv")) ELSE runNext(fr)

\* parallelNode.run that starts its units although an interceptor failed
parallelNode_run_ignoreIntErr(fr) ==
  CASE fr.pc = "start" -> Goto(AtK(fr, "int", 1))
    [] fr.pc = "int" -> IF fr.k <= Len(fr.ints) THEN Stay ELSE Goto(At(fr, "make"))
    [] fr.pc = "intret" -> Goto(AtK(fr, "int", fr.k + 1))
    [] fr.pc = "make" -> Stay
    [] fr.pc = "spawn" -> IF fr.k <= Len(heap[fr.node].nodes) THEN Stay
                          ELSE Goto(At(fr, "closer"))
    [] fr.pc = "closer" -> Stay
    [] fr.pc = "recv" -> Stay
    [] fr.pc = "recvret" ->
         IF fr.b
         THEN IF fr.val # NilErr THEN Ret(fr.val) ELSE Goto(At(fr, "recv"))
         ELSE runNext(fr)

parallelNode_run(fr) ==
  CASE fr.pc = "start" -> Goto(AtK(fr, "int", 1))
    [] fr.pc = "int" -> IF fr.k <= Len(fr.ints) THEN Stay ELSE Goto(At(fr, "make"))
    [] fr.pc = "intret" -> IF fr.val # NilErr THEN Ret(fr.val)
                           ELSE Goto(AtK(fr, "int", fr.k + 1))
    [] fr.pc = "make" -> Stay
    [] fr.pc = "spawn" -> IF fr.k <= Len(heap[fr.node].nodes) THEN Stay
                          ELSE Goto(At(fr, "closer"))
    [] fr.pc = "closer" -> Stay
    [] fr.pc = "recv" -> Stay
    [] fr.pc = "recvret" ->
         IF fr.b
         THEN IF fr.val # NilErr THEN Ret(fr.val) ELSE Goto(At(fr, "recv"))
         ELSE runNext(fr)

\* a unit that skips its sub-node once another unit has reported an error
unit_run_cancel(fr) ==
  CASE fr.pc = "start" -> IF fr.node # NIL /\ chans[fr.aid].buf = <<>>
                          THEN Call(At(fr, "unitret"), fr.node, fr.ints)
                          ELSE Goto(At(fr, "wgdone"))
    [] fr.pc = "unitret" -> IF fr.val # NilErr THEN Goto(At(fr, "send"))
                            ELSE Goto(At(fr, "wgdone"))
    [] fr.pc = "send" -> Stay
    [] fr.pc = "wgdone" -> Stay
    [] fr.pc = "exit" -> Ret(fr.val)

\* the goroutine started for one sub-node of a Parallel node
unit_run(fr) ==
  CASE fr.pc = "start" -> IF fr.node # NIL
                          THEN Call(At(fr, "unitret"), fr.node, fr.ints)
                          ELSE Goto(At(fr, "wgdone"))
    [] fr.pc = "unitret" -> IF fr.val # NilErr THEN Goto(At(fr, "send"))
                            ELSE Goto(At(fr, "wgdone"))
    [] fr.pc = "send" -> Stay
    [] fr.pc = "wgdone" -> Stay
    [] fr.pc = "exit" -> Ret(fr.val)

\* the closer goroutine that returns after wg.Wait() without closing errChan
closer_run_noClose(fr) ==
  CASE fr.pc = "start" -> Goto(At(fr, "wait"))
    [] fr.pc = "wait" -> Stay
    [] fr.pc = "close" -> Ret(NilErr)
    [] fr.pc = "exit" -> Ret(NilErr)

\* the goroutine that waits for the units and closes the channel
closer_run(fr) ==
  CASE fr.pc = "start" -> Goto(At(fr, "wait"))
    [] fr.pc = "wait" -> Stay
    [] fr.pc = "close" -> Stay
    [] fr.pc = "exit" -> Ret(NilErr)

\* Flow.run that hands the node interceptors it was given to its chain
Flow_run_passThrough(fr) ==
  CASE fr.pc = "start" -> IF heap[fr.node].head = NIL THEN Ret(NilErr)
                          ELSE Goto(AtK(fr, "flowint", 1))
    [] fr.pc = "flowint" ->
         IF fr.k <= Len(heap[fr.node].flowInterceptors) THEN Stay
         ELSE TailCall(heap[fr.node].head, fr.ints)
    [] fr.pc = "flowintret" -> IF fr.val # NilErr THEN Ret(fr.val)
                               ELSE Goto(AtK(fr, "flowint", fr.k + 1))

Flow_run(fr) ==
  CASE fr.pc = "start" -> IF heap[fr.node].head = NIL THEN Ret(NilErr)
                          ELSE Goto(AtK(fr, "flowint", 1))
    [] fr.pc = "flowint" ->
         IF fr.k <= Len(heap[fr.node].flowInterceptors) THEN Stay
         ELSE TailCall(heap[fr.node].head, heap[fr.node].nodeInterceptors)
    [] fr.pc = "flowintret" -> IF fr.val # NilErr THEN Ret(fr.val)
                               ELSE Goto(AtK(fr, "flowint", fr.k + 1))

\* Flow.Run that starts its interceptor loop at the second interceptor
Flow_Run_skipFirst(fr) ==
  CASE fr.pc = "start" -> IF heap[fr.node].head = NIL THEN Ret(NilErr)
                          ELSE Goto(AtK(fr, "flowint", 2))
    [] fr.pc = "flowint" ->
         IF fr.k <= Len(heap[fr.node].flowInterceptors) THEN Stay
         ELSE TailCall(heap[fr.node].head, heap[fr.node].nodeInterceptors)
    [] fr.pc = "flowintret" -> IF fr.val # NilErr THEN Ret(fr.val)
                               ELSE Goto(AtK(fr, "flowint", fr.k + 1))

\* Flow.Run that calls the head although a flow-level interceptor failed
Flow_Run_ignoreIntErr(fr) ==
  CASE fr.pc = "start" -> IF heap[fr.node].head = NIL THEN Ret(NilErr)
                          ELSE Goto(AtK(fr, "flowint", 1))
    [] fr.pc = "flowint" ->
         IF fr.k <= Len(heap[fr.node].flowInterceptors) THEN Stay
         ELSE TailCall(heap[fr.node].head, heap[fr.node].nodeInterceptors)
    [] fr.pc = "flowintret" -> Goto(AtK(fr, "flowint", fr.k + 1))

\* Flow.Run that tests for the empty chain only after the flow interceptors
Flow_Run_lateEmptyCheck(fr) ==
  CASE fr.pc = "start" -> Goto(AtK(fr, "flowint", 1))
    [] fr.pc = "flowint" ->
         IF fr.k <= Len(heap[fr.node].flowInterceptors) THEN Stay
         ELSE IF heap[fr.node].head = NIL THEN Ret(NilErr)
         ELSE TailCall(heap[fr.node].head, heap[fr.node].nodeInterceptors)
    [] fr.pc = "flowintret" -> IF fr.val # NilErr THEN Ret(fr.val)
                               ELSE Goto(AtK(fr, "flowint", fr.k + 1))

Flow_Run(fr) ==
  CASE fr.pc = "start" -> IF heap[fr.node].head = NIL THEN Ret(NilErr)
                          ELSE Goto(AtK(fr, "flowint", 1))
    [] fr.pc = "flowint" ->
         IF fr.k <= Len(heap[fr.node].flowInterceptors) THEN Stay
         ELSE TailCall(heap[fr.node].head, heap[fr.node].nodeInterceptors)
    [] fr.pc = "flowintret" -> IF fr.val # NilErr THEN Ret(fr.val)
                               ELSE Goto(AtK(fr, "flowint", fr.k + 1))

\* dynamic dispatch on the frame's method
FrameStep(fr) ==
  CASE fr.fn = "doNode.run" -> doNode_run(fr)
    [] fr.fn = "conditionalNode.run" -> conditionalNode_run(fr)
    [] fr.fn = "sequenceNode.run" -> sequenceNode_run(fr)
    [] fr.fn = "parallelNode.run" -> parallelNode_run(fr)
    [] fr.fn = "Flow.run" -> Flow_run(fr)
    [] fr.fn = "Flow.Run" -> Flow_Run(fr)
    [] fr.fn = "unit" -> unit_run(fr)
    [] fr.fn = "closer" -> closer_run(fr)

\* run a goroutine's stack up to its next call of a callback or its next
\* channel / WaitGroup / go operation, or to the end of the goroutine
RECURSIVE Exec(_)
ExecStep(st, tr) ==
  LET rest == SubSeq(st, 1, Len(st) - 1)
  IN CASE tr.op = "stay" -> [stack |-> st, ret |-> NilErr, fin |-> FALSE]
       [] tr.op = "goto" -> Exec(Append(rest, tr.frame))
       [] tr.op = "call" -> Exec(Append(Append(rest, tr.frame), StartFrame(tr.node, tr.ints)))
       [] tr.op = "tail" -> Exec(Append(rest, StartFrame(tr.node, tr.ints)))
       [] tr.op = "ret" ->
            IF rest = <<>>
            THEN [stack |-> <<>>, ret |-> tr.val, fin |-> TRUE]
            ELSE Exec([rest EXCEPT ![Len(rest)].val = tr.val])

\* (the stack and the step of its top frame are bound as values, so that
\* they are computed once)
Exec(stack) ==
  CHOOSE r \in UNION {{ExecStep(st, tr) : tr \in {FrameStep(st[Len(st)])}} :
                      st \in {stack}} : TRUE

\* a goroutine: main (the caller of Run), a unit of a Parallel node or the
\* closer of its channel; ret is what its bottom frame returned
Goroutine(st, role, aid) == [role |-> role, aid |-> aid] @@ Exec(st)

Threads == 1..Len(threads)
Top(t) == threads[t].stack[Len(threads[t].stack)]
AtPc(t, pc) == /\ ~threads[t].fin
               /\ Top(t).pc = pc
\* goroutine t continues with its top frame replaced by fr
Resume(t, fr) ==
  Goroutine([threads[t].stack EXCEPT ![Len(threads[t].stack)] = fr],
            threads[t].role, threads[t].aid)

Ev(ev, t, n, i, arg, ok) ==
  [ev |-> ev, t |-> t, node |-> n, i |-> i, arg |-> arg, ok |-> ok]

BuildVarsUnchanged == UNCHANGED <<heap, free, nint, phase, ctx, StatsVars>>

\* a Run that uses up the flow-level interceptors of the flow it runs
Run_consumeInterceptors ==
  /\ Building
  /\ phase' = "run"
  /\ threads' = <<Goroutine(<<Frame("Flow.Run", Root, <<>>, 0)>>, "main", 0)>>
  /\ heap' = [heap EXCEPT ![Root].flowInterceptors = <<>>]
  /\ UNCHANGED <<free, nint, chans, log, ctx, StatsVars>>

\* ---- execution steps ----
Run ==
  /\ Building
  /\ phase' = "run"
  /\ threads' = <<Goroutine(<<Frame("Flow.Run", Root, <<>>, 0)>>, "main", 0)>>
  /\ UNCHANGED <<heap, free, nint, chans, log, ctx, StatsVars>>

\* a node-level interceptor is called with the node
Intercept(t) ==
  /\ AtPc(t, "int")
  /\ LET fr == Top(t)
         i == fr.ints[fr.k]
     IN \E ok \in BOOLEAN :
          /\ log' = Append(log, Ev("nodeint", t, fr.node, i, fr.node, ok))
          /\ threads' = [threads EXCEPT ![t] =
               Resume(t, [fr EXCEPT !.pc = "intret",
                                    !.val = IF ok THEN NilErr ELSE IntErr(i, fr.node)])]
  /\ UNCHANGED chans /\ BuildVarsUnchanged

\* a flow-level interceptor is called with nil
FlowIntercept(t) ==
  /\ AtPc(t, "flowint")
  /\ LET fr == Top(t)
         i == heap[fr.node].flowInterceptors[fr.k]
     IN \E ok \in BOOLEAN :
          /\ log' = Append(log, Ev("flowint", t, fr.node, i, NIL, ok))
          /\ threads' = [threads EXCEPT ![t] =
               Resume(t, [fr EXCEPT !.pc = "flowintret",
                                    !.val = IF ok THEN NilErr ELSE IntErr(i, NIL)])]
  /\ UNCHANGED chans /\ BuildVarsUnchanged

\* n.fn(ctx)
CallFn(t) ==
  /\ AtPc(t, "fn")
  /\ LET fr == Top(t)
     IN \E ok \in BOOLEAN :
          /\ log' = Append(log, Ev("fn", t, fr.node, 0, NIL, ok))
          /\ threads' = [threads EXCEPT ![t] =
               Resume(t, [fr EXCEPT !.pc = "fnret",
                                    !.val = IF ok THEN NilErr ELSE FnErr(fr.node)])]
  /\ UNCHANGED chans /\ BuildVarsUnchanged

\* n.condition(ctx)
EvalCond(t) ==
  /\ AtPc(t, "cond")
  /\ LET fr == Top(t)
     IN \E b \in BOOLEAN :
          /\ log' = Append(log, Ev("cond", t, fr.node, 0, NIL, b))
          /\ threads' = [threads EXCEPT ![t] =
               Resume(t, [fr EXCEPT !.pc = "condret", !.b = b])]
  /\ UNCHANGED chans /\ BuildVarsUnchanged

\* parallelNode.run that keeps errChan and the WaitGroup in the node: a
\* second run call of the same node uses the channel the first one made
MakeChan_perNode(t) ==
  /\ AtPc(t, "make")
  /\ LET fr == Top(t)
         len == Len(heap[fr.node].nodes)
         made == {a \in 1..Len(chans) : chans[a].node = fr.node}
     IN IF made = {}
        THEN /\ chans' = Append(chans, [buf |-> <<>>, cap |-> len, closed |-> FALSE,
                                        wg |-> len, node |-> fr.node, owner |-> t])
             /\ threads' = [threads EXCEPT ![t] =
                  Resume(t, [fr EXCEPT !.pc = "spawn", !.k = 1, !.aid = Len(chans) + 1])]
        ELSE LET a == CHOOSE a \in made : TRUE
             IN /\ chans' = [chans EXCEPT ![a].wg = @ + len]
                /\ threads' = [threads EXCEPT ![t] =
                     Resume(t, [fr EXCEPT !.pc = "spawn", !.k = 1, !.aid = a])]
  /\ UNCHANGED log /\ BuildVarsUnchanged

\* errChan := make(chan error): a channel without a buffer
MakeChan_unbuffered(t) ==
  /\ AtPc(t, "make")
  /\ LET fr == Top(t)
         len == Len(heap[fr.node].nodes)
     IN /\ chans' = Append(chans, [buf |-> <<>>, cap |-> 0, closed |-> FALSE,
                                   wg |-> len, node |-> fr.node, owner |-> t])
        /\ threads' = [threads EXCEPT ![t] =
             Resume(t, [fr EXCEPT !.pc = "spawn", !.k = 1, !.aid = Len(chans) + 1])]
  /\ UNCHANGED log /\ BuildVarsUnchanged

\* errChan := make(chan error, len(n.nodes)); wg.Add(len(n.nodes))
MakeChan(t) ==
  /\ AtPc(t, "make")
  /\ LET fr == Top(t)
         len == Len(heap[fr.node].nodes)
     IN /\ chans' = Append(chans, [buf |-> <<>>, cap |-> len, closed |-> FALSE,
                                   wg |-> len, node |-> fr.node, owner |-> t])
        /\ threads' = [threads EXCEPT ![t] =
             Resume(t, [fr EXCEPT !.pc = "spawn", !.k = 1, !.aid = Len(chans) + 1])]
  /\ UNCHANGED log /\ BuildVarsUnchanged

\* go func(node Node) {...}(node)
Go(t) ==
  /\ AtPc(t, "spawn")
  /\ LET fr == Top(t)
     IN threads' = Append(
          [threads EXCEPT ![t] = Resume(t, AtK(fr, "spawn", fr.k + 1))],
          Goroutine(<<Frame("unit", heap[fr.node].nodes[fr.k], fr.ints, fr.aid)>>,
                    "unit", fr.aid))
  /\ UNCHANGED <<chans, log>> /\ BuildVarsUnchanged

\* go func() { wg.Wait(); close(errChan) }()
GoCloser(t) ==
  /\ AtPc(t, "closer")
  /\ LET fr == Top(t)
     IN threads' = Append(
          [threads EXCEPT ![t] = Resume(t, At(fr, "recv"))],
          Goroutine(<<Frame("closer", fr.node, <<>>, fr.aid)>>, "closer", fr.aid))
  /\ UNCHANGED <<chans, log>> /\ BuildVarsUnchanged

\* errChan <- err
Send(t) ==
  /\ AtPc(t, "send")
  /\ LET fr == Top(t)
     IN /\ Len(chans[fr.aid].buf) < chans[fr.aid].cap
        /\ chans' = [chans EXCEPT ![fr.aid].buf = Append(@, fr.val)]
        /\ threads' = [threads EXCEPT ![t] = Resume(t, At(fr, "wgdone"))]
  /\ UNCHANGED log /\ BuildVarsUnchanged

\* the deferred wg.Done()
WgDone(t) ==
  /\ AtPc(t, "wgdone")
  /\ LET fr == Top(t)
     IN /\ chans' = [chans EXCEPT ![fr.aid].wg = @ - 1]
        /\ threads' = [threads EXCEPT ![t] = Resume(t, At(fr, "exit"))]
  /\ UNCHANGED log /\ BuildVarsUnchanged

\* wg.Wait() returns
WgWait(t) ==
  /\ AtPc(t, "wait")
  /\ LET fr == Top(t)
     IN /\ chans[fr.aid].wg = 0
        /\ threads' = [threads EXCEPT ![t] = Resume(t, At(fr, "close"))]
  /\ UNCHANGED <<chans, log>> /\ BuildVarsUnchanged

\* close(errChan)
Close(t) ==
  /\ AtPc(t, "close")
  /\ LET fr == Top(t)
     IN /\ chans' = [chans EXCEPT ![fr.aid].closed = TRUE]
        /\ threads' = [threads EXCEPT ![t] = Resume(t, At(fr, "exit"))]
  /\ UNCHANGED log /\ BuildVarsUnchanged

\* one iteration of "for err := range errChan"
Recv(t) ==
  /\ AtPc(t, "recv")
  /\ LET fr == Top(t)
         ch == chans[fr.aid]
     IN \/ /\ ch.buf # <<>>
           /\ chans' = [chans EXCEPT ![fr.aid].buf = Tail(@)]
           /\ threads' = [threads EXCEPT ![t] =
                Resume(t, [fr EXCEPT !.pc = "recvret", !.b = TRUE, !.val = Head(ch.buf)])]
        \/ /\ ch.buf = <<>> /\ ch.closed
           /\ chans' = chans
           /\ threads' = [threads EXCEPT ![t] =
                Resume(t, [fr EXCEPT !.pc = "recvret", !.b = FALSE, !.val = NilErr])]
  /\ UNCHANGED log /\ BuildVarsUnchanged

\* one step of goroutine t
Step(t) ==
  /\ t \in Threads
  /\ \/ Intercept(t)
     \/ FlowIntercept(t)
     \/ CallFn(t)
     \/ EvalCond(t)
     \/ MakeChan(t)
     \/ Go(t)
     \/ GoCloser(t)
     \/ Send(t)
     \/ WgDone(t)
     \/ WgWait(t)
     \/ Close(t)
     \/ Recv(t)

Init ==
  /\ heap = <<MkNode("flow")>>
  /\ free = {}
  /\ nint = 0
  /\ phase = "build"
  /\ threads = <<>>
  /\ chans = <<>>
  /\ log = <<>>
  /\ ctx = "live"
  /\ StatsInit

Next ==
  \/ New
  \/ Do
  \/ \E f \in Buildable : FlowDo(f)
  \/ \E f \in Buildable : \E b \in free \cup {NIL} : FlowIf(f, b)
  \/ \E f \in Buildable : \E n \in free : Then(f, n)
  \/ \E a \in ArgLists : InSequence(a)
  \/ \E a \in ArgLists : InParallel(a)
  \/ \E f \in Buildable : AddFlowInterceptor(f)
  \/ \E f \in Buildable : AddNodeInterceptor(f)
  \/ Run
  \/ \E t \in Threads : Intercept(t)
  \/ \E t \in Threads : FlowIntercept(t)
  \/ \E t \in Threads : CallFn(t)
  \/ \E t \in Threads : EvalCond(t)
  \/ \E t \in Threads : MakeChan(t)
  \/ \E t \in Threads : Go(t)
  \/ \E t \in Threads : GoCloser(t)
  \/ \E t \in Threads : Send(t)
  \/ \E t \in Threads : WgDone(t)
  \/ \E t \in Threads : WgWait(t)
  \/ \E t \in Threads : Close(t)
  \/ \E t \in Threads : Recv(t)

Spec == Init /\ [][Next]_vars

\* some goroutine takes a step
RunStep == \E t \in Threads : Step(t)

\* the Go scheduler does not stop while a goroutine can take a step
FairSpec == Spec /\ WF_vars(RunStep)

\* ---- the flow New("f").Then(InParallel("p", Do(..), .., Do(..))) ----
\* the heap after these builder calls, with u Action nodes in the Parallel
\* node, fi flow-level and ni node-level interceptors on the flow
ParallelFlow(u, fi, ni) ==
  LET args == [j \in 1..u |-> j + 1]
      h1 == <<MkNode("flow")>> \o [j \in 1..u |-> MkNode("do")]
      h2 == Append(h1, [MkNode("par") EXCEPT !.nodes = filterNil(args)])
      h3 == appendNode(h2, Root, u + 2)
  IN [h3 EXCEPT ![Root].flowInterceptors = [j \in 1..fi |-> j],
                ![Root].nodeInterceptors = [j \in 1..ni |-> fi + j]]

\* the same flow followed by .Do(..): the Parallel node has a successor
ParallelFlowDo(u, fi, ni) ==
  appendNode(Append(ParallelFlow(u, fi, ni), MkNode("do")), Root, u + 3)

ParInit ==
  /\ \E u \in 0..MaxArgs : \E fi, ni \in 0..1 :
       /\ fi + ni <= MaxInts
       /\ heap \in {ParallelFlow(u, fi, ni), ParallelFlowDo(u, fi, ni)}
       /\ nint = fi + ni
  /\ free = {}
  /\ phase = "build"
  /\ threads = <<>>
  /\ chans = <<>>
  /\ log = <<>>
  /\ ctx = "live"
  /\ StatsInit

ParNext ==
  \/ Run
  \/ \E t \in Threads : Intercept(t)
  \/ \E t \in Threads : FlowIntercept(t)
  \/ \E t \in Threads : CallFn(t)
  \/ \E t \in Threads : MakeChan(t)
  \/ \E t \in Threads : Go(t)
  \/ \E t \in Threads : GoCloser(t)
  \/ \E t \in Threads : Send(t)
  \/ \E t \in Threads : WgDone(t)
  \/ \E t \in Threads : WgWait(t)
  \/ \E t \in Threads : Close(t)
  \/ \E t \in Threads : Recv(t)

\* Run of that flow, the scheduler never stopping while a goroutine can step
ParFairSpec == ParInit /\ [][ParNext]_vars /\ WF_vars(RunStep)

\* ---- the flow New("f").Then(InParallel("p", Do(..))) run by two callers at once ----
\* a second caller calls Run on the flow while the first call is under way
RunConcurrent ==
  /\ phase = "run"
  /\ Cardinality({t \in Threads : threads[t].role = "main"}) = 1
  /\ threads' = Append(threads, Goroutine(<<Frame("Flow.Run", Root, <<>>, 0)>>, "main", 0))
  /\ UNCHANGED <<chans, log>> /\ BuildVarsUnchanged

ConcInit ==
  /\ heap = ParallelFlow(1, 0, 0)
  /\ nint = 0
  /\ free = {}
  /\ phase = "build"
  /\ threads = <<>>
  /\ chans = <<>>
  /\ log = <<>>
  /\ ctx = "live"
  /\ StatsInit

ConcNext ==
  \/ Run
  \/ RunConcurrent
  \/ \E t \in Threads : CallFn(t)
  \/ \E t \in Threads : MakeChan(t)
  \/ \E t \in Threads : Go(t)
  \/ \E t \in Threads : GoCloser(t)
  \/ \E t \in Threads : Send(t)
  \/ \E t \in Threads : WgDone(t)
  \/ \E t \in Threads : WgWait(t)
  \/ \E t \in Threads : Close(t)
  \/ \E t \in Threads : Recv(t)

ConcSpec == ConcInit /\ [][ConcNext]_vars

\* ---- a run whose context is cancelled before or during the run ----
\* the context is cancelled or reaches its deadline (by its owner, not by
\* the engine)
Cancel ==
  /\ phase = "run" /\ ctx = "live"
  /\ ctx' = "cancelled"
  /\ log' = Append(log, Ev("cancel", 0, NIL, 0, NIL, TRUE))
  /\ UNCHANGED <<heap, free, nint, phase, threads, chans, StatsVars>>

\* the flows of ParInit, Run being called with a live or a cancelled context
CtxInit ==
  /\ \E u \in 0..MaxArgs : \E fi, ni \in 0..1 :
       /\ fi + ni <= MaxInts
       /\ heap \in {ParallelFlow(u, fi, ni), ParallelFlowDo(u, fi, ni)}
       /\ nint = fi + ni
  /\ free = {}
  /\ phase = "build"
  /\ threads = <<>>
  /\ chans = <<>>
  /\ log = <<>>
  /\ ctx \in {"live", "cancelled"}
  /\ StatsInit

CtxNext ==
  \/ Cancel
  \/ ParNext

CtxSpec == CtxInit /\ [][CtxNext]_vars

\* ---- builder calls without the one-use discipline ----
\* the values the caller holds a reference to: the flows and the nodes the
\* constructors returned (free is never reduced here)
Held == free \cup {Root}
Flows == {f \in Held : heap[f].kind = "flow"}

\* f.Then(node) for any value the caller holds: one already appended
\* somewhere, or f itself, or nil; the panic of Then(nil) ends the program
ThenReused(f, node) ==
  /\ Building
  /\ heap' = Flow_Then(heap, f, node)
  /\ phase' = IF Flow_Then_panics(node) THEN "panicked" ELSE phase
  /\ UNCHANGED <<free, nint, threads, chans, log, ctx, StatsVars>>

\* f.If(.., trueBranch) for any value the caller holds, or nil
IfReused(f, trueBranch) ==
  /\ Building /\ CanAlloc
  /\ heap' = Flow_If(heap, f, trueBranch)
  /\ UNCHANGED <<free, nint>> /\ RunVarsUnchanged

ReuseNext ==
  \/ New
  \/ Do
  \/ \E f \in Flows : FlowDo(f)
  \/ \E f \in Flows : \E b \in Held \cup {NIL} : IfReused(f, b)
  \/ \E f \in Flows : \E n \in Held \cup {NIL} : ThenReused(f, n)

\* any sequence of New, Do, If and Then calls on the flows and nodes
\* constructed so far
ReuseSpec == Init /\ [][ReuseNext]_vars

\* ---- StatsV2Client.Counter called from several goroutines ----
FlowVarsUnchanged == UNCHANGED <<heap, free, nint, phase, threads, chans, log, ctx>>
\* a panic in any goroutine ends the program
StatsPanicked == \E c \in Callers : callers[c].pc = "panicked"
CallerAt(c, pc) == ~StatsPanicked /\ callers[c].pc = pc
SetCaller(c, r) ==
  callers' = [callers EXCEPT ![c] = r]

\* goroutine c calls s.Counter(name); newName := scopeToName(..) is name n
Counter(c) ==
  /\ CallerAt(c, "idle")
  /\ \E n \in Names :
       SetCaller(c, [callers[c] EXCEPT !.pc = "fetchLock", !.name = n])
  /\ UNCHANGED <<registeredCache, cacheMutex, registry, ncounters, registerCalls>>
  /\ FlowVarsUnchanged

\* fetchCounter: cacheMutex.Lock()
fetchCounter_Lock(c) ==
  /\ CallerAt(c, "fetchLock")
  /\ cacheMutex = 0
  /\ cacheMutex' = c
  /\ SetCaller(c, [callers[c] EXCEPT !.pc = "fetchRead"])
  /\ UNCHANGED <<registeredCache, registry, ncounters, registerCalls>>
  /\ FlowVarsUnchanged

\* fetchCounter: counter, ok := registeredCache[name]
fetchCounter_Read(c) ==
  /\ CallerAt(c, "fetchRead")
  /\ SetCaller(c, [callers[c] EXCEPT !.pc = "fetchUnlock",
                                     !.counter = registeredCache[callers[c].name]])
  /\ UNCHANGED <<registeredCache, cacheMutex, registry, ncounters, registerCalls>>
  /\ FlowVarsUnchanged

\* fetchCounter: the deferred cacheMutex.Unlock() and the return; Counter
\* returns the counter when it is not nil
fetchCounter_Unlock(c) ==
  /\ CallerAt(c, "fetchUnlock")
  /\ cacheMutex' = 0
  /\ IF callers[c].counter # NilCounter
     THEN SetCaller(c, [callers[c] EXCEPT !.pc = "done", !.ret = callers[c].counter])
     ELSE SetCaller(c, [callers[c] EXCEPT !.pc = "new"])
  /\ UNCHANGED <<registeredCache, registry, ncounters, registerCalls>>
  /\ FlowVarsUnchanged

\* counter := prometheus.NewCounter(CounterOpts{Name: newName, ..})
NewCounter(c) ==
  /\ CallerAt(c, "new")
  /\ ncounters' = ncounters + 1
  /\ SetCaller(c, [callers[c] EXCEPT !.pc = "register", !.counter = ncounters + 1])
  /\ UNCHANGED <<registeredCache, cacheMutex, registry, registerCalls>>
  /\ FlowVarsUnchanged

\* what prometheus.MustRegister does to the default registry: a collector
\* whose name is already registered is refused, and MustRegister panics
Registry_Register(reg, n, counter) ==
  IF \E e \in reg : e[1] = n THEN reg ELSE reg \cup {<<n, counter>>}

\* prometheus.MustRegister(counter)
MustRegister(c) ==
  /\ CallerAt(c, "register")
  /\ registerCalls' = Append(registerCalls, <<callers[c].name, callers[c].counter>>)
  /\ registry' = Registry_Register(registry, callers[c].name, callers[c].counter)
  /\ IF \E e \in registry : e[1] = callers[c].name
     THEN SetCaller(c, [callers[c] EXCEPT !.pc = "panicked"])
     ELSE SetCaller(c, [callers[c] EXCEPT !.pc = "storeLock"])
  /\ UNCHANGED <<registeredCache, cacheMutex, ncounters>>
  /\ FlowVarsUnchanged

\* Counter: cacheMutex.Lock()
Counter_Lock(c) ==
  /\ CallerAt(c, "storeLock")
  /\ cacheMutex = 0
  /\ cacheMutex' = c
  /\ SetCaller(c, [callers[c] EXCEPT !.pc = "store"])
  /\ UNCHANGED <<registeredCache, registry, ncounters, registerCalls>>
  /\ FlowVarsUnchanged

\* Counter: registeredCache[newName] = counter
Counter_Store(c) ==
  /\ CallerAt(c, "store")
  /\ registeredCache' = [registeredCache EXCEPT ![callers[c].name] = callers[c].counter]
  /\ SetCaller(c, [callers[c] EXCEPT !.pc = "storeUnlock"])
  /\ UNCHANGED <<cacheMutex, registry, ncounters, registerCalls>>
  /\ FlowVarsUnchanged

\* Counter: cacheMutex.Unlock(); return counter
Counter_Unlock(c) ==
  /\ CallerAt(c, "storeUnlock")
  /\ cacheMutex' = 0
  /\ SetCaller(c, [callers[c] EXCEPT !.pc = "done", !.ret = callers[c].counter])
  /\ UNCHANGED <<registeredCache, registry, ncounters, registerCalls>>
  /\ FlowVarsUnchanged

StatsNext ==
  \/ \E c \in Callers : Counter(c)
  \/ \E c \in Callers : fetchCounter_Lock(c)
  \/ \E c \in Callers : fetchCounter_Read(c)
  \/ \E c \in Callers : fetchCounter_Unlock(c)
  \/ \E c \in Callers : NewCounter(c)
  \/ \E c \in Callers : MustRegister(c)
  \/ \E c \in Callers : Counter_Lock(c)
  \/ \E c \in Callers : Counter_Store(c)
  \/ \E c \in Callers : Counter_Unlock(c)

\* up to MaxCallers goroutines, each calling Counter once with any name
StatsSpec == Init /\ [][StatsNext]_vars

\* ---- observations ----
InRun == phase = "run"
MainDone == InRun /\ threads[1].fin
Result == threads[1].ret
Events == 1..Len(log)
Kind(n) == heap[n].kind
FnFailed(n) == \E p \in Events : log[p].ev = "fn" /\ log[p].node = n /\ ~log[p].ok
FnCalled(n) == \E p \in Events : log[p].ev = "fn" /\ log[p].node = n
IsIntEvent(e) == e.ev \in {"nodeint", "flowint"}
NoIntFail == \A p \in Events : IsIntEvent(log[p]) => log[p].ok
Rejected(n) == \E p \in Events : log[p].ev = "nodeint" /\ log[p].arg = n /\ ~log[p].ok
FnLog == SelectSeq(log, LAMBDA e : e.ev = "fn")
\* the calls of node-level interceptors with node n
IntLog(n) == SelectSeq(log, LAMBDA e : e.ev = "nodeint" /\ e.arg = n)
TimesCalled(i, n) ==
  Cardinality({p \in Events : log[p].ev = "nodeint" /\ log[p].i = i /\ log[p].arg = n})

Activations == 1..Len(chans)
Units(a) == {t \in Threads : threads[t].role = "unit" /\ threads[t].aid = a}
\* parallelNode.run of activation a is no longer on any stack
ParReturned(a) ==
  \A t \in Threads : \A j \in 1..Len(threads[t].stack) :
    ~(threads[t].stack[j].fn = "parallelNode.run" /\ threads[t].stack[j].aid = a)
\* unit t is inside node.run
UnitRunning(t) == threads[t].role = "unit" /\ ~threads[t].fin /\ Len(threads[t].stack) > 1
\* the error node.run returned in unit t (nil while it runs or when it succeeded)
UnitErr(t) ==
  IF threads[t].fin THEN threads[t].ret
  ELSE IF Len(threads[t].stack) = 1 THEN Top(t).val
  ELSE NilErr
HeadPar == heap[Root].head # NIL /\ Kind(heap[Root].head) = "par"

\* ---- C1 ----
ActionChain == \A j \in 1..Len(ChainOf(Root)) : Kind(ChainOf(Root)[j]) = "do"

\* C1: in a chain of Action nodes (no interceptor failing), the functions
\* called so far are the actions 1..m of the chain, in chain order, each once,
\* all but the last successful; the first failure ends Run at once with that
\* action's error, so no later action is ever called; without a failure Run
\* ends after action N with success.
C1_ChainShortCircuit ==
  (InRun /\ ActionChain /\ NoIntFail) =>
    LET c == ChainOf(Root)
        m == Len(FnLog)
    IN /\ Len(log) = Len(SelectSeq(log, LAMBDA e : e.ev = "fn" \/ IsIntEvent(e)))
       /\ m <= Len(c)
       /\ \A j \in 1..m : /\ FnLog[j].node = c[j]
                          /\ FnLog[j].t = 1
                          /\ (j < m => FnLog[j].ok)
       /\ (m > 0 /\ ~FnLog[m].ok) => (MainDone /\ Result = FnErr(c[m]))
       /\ (MainDone /\ (m = 0 \/ FnLog[m].ok)) => (m = Len(c) /\ Result = NilErr)

C1_Witness ==
  /\ InRun /\ ActionChain /\ NoIntFail
  /\ Len(ChainOf(Root)) = 3
  /\ Len(FnLog) = 2 /\ FnLog[1].ok /\ ~FnLog[2].ok
  /\ MainDone

\* ---- C2 ----
\* C2: when parallelNode.run has returned, no unit it started is still
\* inside its sub-node's run.
C2_ParallelReturnsAfterAllUnits ==
  InRun => \A a \in Activations :
             ParReturned(a) => \A t \in Units(a) : ~UnitRunning(t)

\* ---- C3 ----
\* C3: for a Parallel node at the head of the chain, once Run has returned:
\* if a unit of the node failed, or a unit has not finished yet, the result
\* is the error of one of the failing units (never nil, never another error).
C3_ParallelReportsUnitError ==
  (InRun /\ HeadPar /\ MainDone) =>
    \A a \in Activations :
      chans[a].node = heap[Root].head =>
        LET F == {UnitErr(t) : t \in Units(a)} \ {NilErr}
        IN (F # {} \/ \E t \in Units(a) : ~threads[t].fin) => Result \in F

\* both units failed and Run returned the error of the unit listed second
C3_Witness ==
  /\ InRun /\ HeadPar /\ MainDone
  /\ \E a \in Activations :
       /\ chans[a].node = heap[Root].head
       /\ Cardinality({UnitErr(t) : t \in Units(a)} \ {NilErr}) = 2
       /\ \E t, u \in Units(a) : u < t /\ UnitErr(u) # NilErr /\ Result = UnitErr(t)

\* ---- C4 ----
\* a Parallel node of two or more Action nodes at the head of the chain
ParOfActions ==
  /\ HeadPar
  /\ Len(heap[heap[Root].head].nodes) >= 2
  /\ \A j \in 1..Len(heap[heap[Root].head].nodes) :
       Kind(heap[heap[Root].head].nodes[j]) = "do"
UnitNodes == Range(heap[heap[Root].head].nodes)
SomeUnitFailed == InRun /\ ParOfActions /\ \E n \in UnitNodes : FnFailed(n)
EveryUnitCalled ==
  InRun /\ ParOfActions /\ \A n \in UnitNodes : FnCalled(n) \/ Rejected(n)

\* C4: in a Parallel node of Action nodes, once the function of one unit
\* has failed, Run returns an error, and the function of every other unit
\* is still called and runs to completion (unless one of that unit's own
\* interceptors rejects it), whichever unit is scheduled first.
C4_FailureCancelsNoUnit ==
  /\ [](SomeUnitFailed /\ MainDone => Result # NilErr)
  /\ (SomeUnitFailed ~> MainDone)
  /\ (SomeUnitFailed ~> EveryUnitCalled)

\* Run has returned A's error and B's function was called after A failed
C4_Witness ==
  /\ SomeUnitFailed /\ MainDone /\ NoIntFail
  /\ \E p, q \in Events :
       /\ p < q
       /\ log[p].ev = "fn" /\ ~log[p].ok /\ Result = FnErr(log[p].node)
       /\ log[q].ev = "fn" /\ log[q].ok /\ log[q].node # log[p].node

\* ---- C5 ----
PastInterceptors(fr) == fr.pc \notin {"start", "int", "intret"}

\* C5: every Action, Conditional, Sequence or Parallel node that is doing
\* its own work has had each node-level interceptor it was run with called
\* exactly once with that node.
C5_InterceptorOncePerNode ==
  InRun =>
    \A t \in Threads : \A j \in 1..Len(threads[t].stack) :
      LET fr == threads[t].stack[j]
      IN (fr.fn \in {"doNode.run", "conditionalNode.run",
                     "sequenceNode.run", "parallelNode.run"}
          /\ PastInterceptors(fr)) =>
           \A q \in 1..Len(fr.ints) : TimesCalled(fr.ints[q], fr.node) = 1

\* ---- C6 ----
\* C6: a failing flow-level interceptor of the flow being Run is the last
\* thing that happens: only flow-level interceptors before it in the list
\* were called, Run has returned its error, and no node-level interceptor,
\* node or goroutine ever runs.
C6_FlowInterceptorFailure ==
  InRun =>
    \A p \in Events :
      (log[p].ev = "flowint" /\ log[p].node = Root /\ log[p].t = 1 /\ ~log[p].ok) =>
        /\ p = Len(log)
        /\ \A q \in 1..p : /\ log[q].ev = "flowint"
                           /\ log[q].i = heap[Root].flowInterceptors[q]
                           /\ (q < p => log[q].ok)
        /\ heap[Root].head # NIL
        /\ MainDone /\ Result = IntErr(log[p].i, NIL)
        /\ Len(threads) = 1 /\ chans = <<>>

C6_Witness ==
  /\ InRun /\ MainDone
  /\ Len(heap[Root].flowInterceptors) = 2
  /\ heap[Root].nodeInterceptors = <<>>
  /\ Len(log) = 1 /\ log[1].ev = "flowint" /\ ~log[1].ok
  /\ Result = IntErr(heap[Root].flowInterceptors[1], NIL)

\* ---- C7 ----
\* C7: Run of a flow with an empty chain returns success and calls nothing.
C7_EmptyFlow ==
  (InRun /\ heap[Root].head = NIL) =>
    /\ MainDone /\ Result = NilErr
    /\ log = <<>> /\ Len(threads) = 1 /\ chans = <<>>

C7_Witness ==
  /\ InRun /\ heap[Root].head = NIL
  /\ heap[Root].flowInterceptors # <<>>
  /\ heap[Root].nodeInterceptors # <<>>
  /\ MainDone

\* ---- C8 ----
\* the chain is If("c", pred, X) followed by Do("y", fy)
IfThenDo ==
  /\ Len(ChainOf(Root)) = 2
  /\ Kind(ChainOf(Root)[1]) = "cond"
  /\ Kind(ChainOf(Root)[2]) = "do"
PredFalse(c) == \E p \in Events : log[p].ev = "cond" /\ log[p].node = c /\ ~log[p].ok

\* C8: in If("c", pred, X).Do("y", fy) with pred returning false, pred is
\* evaluated once, nothing of X is ever called (no function, predicate or
\* interceptor on a node of X, no goroutine), and fy is called: it is the
\* next call on the chain, and it has been called once when Run returns
\* (no interceptor failing).
C8_FalsePredicateSkipsBranch ==
  (InRun /\ IfThenDo /\ PredFalse(ChainOf(Root)[1])) =>
    LET c == ChainOf(Root)[1]
        y == ChainOf(Root)[2]
    IN /\ Cardinality({p \in Events : log[p].ev = "cond"}) = 1
       /\ \A p \in Events : log[p].node \in {Root, c, y}
       /\ Len(threads) = 1 /\ chans = <<>>
       /\ Cardinality({p \in Events : log[p].ev = "fn"}) <= 1
       /\ (~MainDone => Top(1).node = y)
       /\ NoIntFail => (FnCalled(y) \/ (~MainDone /\ Top(1).pc \in {"int", "fn"}))

C8_Witness ==
  /\ InRun /\ IfThenDo /\ PredFalse(ChainOf(Root)[1])
  /\ heap[ChainOf(Root)[1]].branch # NIL
  /\ MainDone /\ FnCalled(ChainOf(Root)[2])

\* ---- C9 ----
\* flow g was spliced into the root flow by Then
Spliced(g) ==
  /\ g # Root /\ Kind(g) = "flow" /\ g \notin free
  /\ heap[g].head # NIL
  /\ heap[g].head \in Range(ChainOf(Root))
AllOk == \A p \in Events : log[p].ok

\* C9: after Root.Then(g) the chain of Root is Root's nodes followed by g's
\* nodes; Run calls only Root's interceptors, never g's, runs the chain's
\* nodes in chain order, and when it returns with every call successful each
\* node-level interceptor of Root has been called exactly once with each of
\* the nodes of the chain.
C9_SplicedFlowSharesInterceptors ==
  InRun =>
    \A g \in 1..Len(heap) :
      Spliced(g) =>
        LET c == ChainOf(Root)
        IN /\ \E m \in 0..Len(c) :
                SubSeq(c, m + 1, Len(c)) = Chain(heap, heap[g].head, MaxNodes + 1)
           /\ \A p \in Events :
                IsIntEvent(log[p]) =>
                  log[p].i \notin Range(heap[g].flowInterceptors)
                                  \cup Range(heap[g].nodeInterceptors)
           /\ \A p, q \in Events :
                \A j, k \in 1..Len(c) :
                  (p < q /\ log[p].node = c[j] /\ log[q].node = c[k]) => j <= k
           /\ (MainDone /\ AllOk) =>
                \A j \in 1..Len(c) :
                  \A q \in 1..Len(heap[Root].nodeInterceptors) :
                    TimesCalled(heap[Root].nodeInterceptors[q], c[j]) = 1

\* ---- C10 ----
\* the interceptor list that holds interceptor i
ListOf(i) ==
  LET f == CHOOSE f \in 1..Len(heap) : i \in Range(heap[f].nodeInterceptors)
  IN heap[f].nodeInterceptors

\* C10: when interceptor ij fails on an Action, Conditional or Parallel
\* node n: the interceptors called with n are i1..ij in list order, each
\* once, all before ij successful; nothing else of n is ever called (no
\* function, no predicate, no unit started), the successor of n is never
\* run, and ij's error is what n's run returned: it is the result of the
\* goroutine that ran n (the result of Run, or the error the unit reports).
C10_NodeInterceptorFailure ==
  InRun =>
    \A p \in Events :
      (log[p].ev = "nodeint" /\ ~log[p].ok
       /\ Kind(log[p].arg) \in {"do", "cond", "par"}) =>
        LET n == log[p].arg
            t == log[p].t
            L == ListOf(log[p].i)
            called == IntLog(n)
        IN /\ Len(called) <= Len(L)
           /\ \A j \in 1..Len(called) : /\ called[j].i = L[j]
                                        /\ (j < Len(called) => called[j].ok)
           /\ called[Len(called)] = log[p]
           /\ \A q \in Events : (log[q].node = n \/ log[q].arg = n) => log[q].ev = "nodeint"
           /\ \A a \in Activations : chans[a].node # n
           /\ heap[n].next # NIL => \A q \in Events : log[q].node # heap[n].next
           /\ \A q \in Events : q > p => log[q].t # t
           /\ IF threads[t].role = "main"
              THEN threads[t].fin /\ threads[t].ret = IntErr(log[p].i, n)
              ELSE UnitErr(t) = IntErr(log[p].i, n)

C10_Witness ==
  /\ InRun
  /\ \E p \in Events :
       /\ log[p].ev = "nodeint" /\ ~log[p].ok
       /\ Kind(log[p].arg) = "par"
       /\ heap[log[p].arg].nodes # <<>>
       /\ Len(ListOf(log[p].i)) = 2
       /\ log[p].i = ListOf(log[p].i)[1]
       /\ MainDone

\* ---- C11 ----
\* node s has started: a callback was called for it or its run is on a stack
Started(s) ==
  \/ \E p \in Events : log[p].node = s \/ log[p].arg = s
  \/ \E t \in Threads : \E j \in 1..Len(threads[t].stack) :
       threads[t].stack[j].node = s /\ threads[t].stack[j].fn \notin {"unit", "closer"}
\* every unit of activation a was started and has finished without error
AllUnitsSucceeded(a) ==
  /\ Cardinality(Units(a)) = Len(heap[chans[a].node].nodes)
  /\ \A t \in Units(a) : threads[t].fin /\ threads[t].ret = NilErr

\* C11: the successor of a Parallel node is started only when every unit of
\* the node has finished and none of them has failed; so once a unit has
\* failed the successor is never started, under every interleaving.
C11_SuccessorAfterAllUnits ==
  InRun => \A a \in Activations :
             (heap[chans[a].node].next # NIL /\ Started(heap[chans[a].node].next))
               => AllUnitsSucceeded(a)

\* two units have finished without error and the successor's function was
\* called after both of theirs
C11_Witness ==
  /\ InRun /\ HeadPar
  /\ \E a \in Activations :
       LET s == heap[chans[a].node].next
       IN /\ s # NIL /\ Cardinality(Units(a)) >= 2 /\ AllUnitsSucceeded(a)
          /\ \E q \in Events :
               /\ log[q].ev = "fn" /\ log[q].node = s
               /\ \A n \in Range(heap[chans[a].node].nodes) :
                    \E p \in Events : p < q /\ log[p].ev = "fn" /\ log[p].node = n

\* ---- C12 ----
\* the nodes a node refers to, and the nodes reachable from a set of nodes
Refs(n) ==
  ({heap[n].next, heap[n].branch, heap[n].head} \cup Range(heap[n].nodes)) \ {NIL}
RECURSIVE Reach(_)
Reach(S) ==
  LET T == S \cup UNION {Refs(n) : n \in S}
  IN IF T = S THEN S ELSE Reach(T)
\* everything run by n.run: n, its branch or sub-nodes, and its chain
Sub(n) == Reach({n})
Failed(e) == e.ev # "cond" /\ ~e.ok
ErrOf(e) ==
  CASE e.ev = "fn" -> FnErr(e.node)
    [] e.ev = "nodeint" -> IntErr(e.i, e.arg)
    [] e.ev = "flowint" -> IntErr(e.i, NIL)
\* the error goroutine t has come back with from the node it runs
Outcome(t) == IF threads[t].role = "main" THEN threads[t].ret ELSE UnitErr(t)
\* some node of S has started
StartedIn(S) == \E s \in S : Started(s)
\* nothing of S is running and no call made for a node of S has failed
CompletedOk(S) ==
  /\ \A p \in Events : (log[p].node \in S \/ log[p].arg \in S) => ~Failed(log[p])
  /\ \A t \in Threads : \A j \in 1..Len(threads[t].stack) :
       threads[t].stack[j].node \in S => threads[t].stack[j].fn = "closer"
SeqNodes == {q \in 1..Len(heap) : Kind(q) = "seq"}

\* C12: for every Sequence node: when something of sub-node k or of the
\* node's successor has started, the chain of every earlier sub-node has
\* completed without a failure (so after a failing sub-node no later one and
\* no successor ever starts); the calls of an earlier sub-node all precede
\* those of a later one; a failure inside a sub-node is what the goroutine
\* running the Sequence comes back with; and when Run returns nil every
\* Action sub-node and Action successor of a Sequence on the flow's chain
\* has been called.
C12_SequenceInOrder ==
  InRun => \A q \in SeqNodes :
    LET ns == heap[q].nodes
        later(j) == UNION {Sub(ns[k]) : k \in (j + 1)..Len(ns)}
                      \cup (IF heap[q].next = NIL THEN {} ELSE Sub(heap[q].next))
    IN /\ \A j \in 1..Len(ns) : StartedIn(later(j)) => CompletedOk(Sub(ns[j]))
       /\ \A j \in 1..Len(ns) : \A p, r \in Events :
            (log[p].node \in Sub(ns[j]) /\ log[r].node \in later(j)) => p < r
       /\ \A p \in Events :
            (Failed(log[p]) /\ \E j \in 1..Len(ns) : log[p].node \in Sub(ns[j]))
              => Outcome(log[p].t) = ErrOf(log[p])
       /\ (MainDone /\ Result = NilErr /\ q \in Range(ChainOf(Root))) =>
            \A n \in Range(ns) \cup ({heap[q].next} \ {NIL}) :
              Kind(n) = "do" => FnCalled(n)

\* a Sequence of two Action nodes: the first succeeded, the second failed
\* after it, and Run returned the second's error
C12_Witness ==
  /\ MainDone
  /\ \E q \in SeqNodes :
       /\ Len(heap[q].nodes) = 2
       /\ \E p, r \in Events :
            /\ p < r
            /\ log[p].ev = "fn" /\ log[p].node = heap[q].nodes[1] /\ log[p].ok
            /\ log[r].ev = "fn" /\ log[r].node = heap[q].nodes[2] /\ ~log[r].ok
            /\ Result = FnErr(heap[q].nodes[2])

\* ---- C13 ----
PredTrue(c) == \E p \in Events : log[p].ev = "cond" /\ log[p].node = c /\ log[p].ok
CondNodes == {c \in 1..Len(heap) : Kind(c) = "cond"}
\* the nodes of the chain that starts at node n (the flow's chain for a flow)
TopChain(n) ==
  IF Kind(n) = "flow" THEN Range(ChainOf(n)) ELSE Range(Chain(heap, n, MaxNodes + 1))

\* C13: for every Conditional node with a non-nil branch whose predicate
\* returned true: the branch is started at once; when something of the
\* node's successor has started, the whole chain of the branch has completed
\* without a failure and every Action node on the branch's chain has been
\* called (so after a failure in the branch the successor never starts);
\* the calls of the branch all precede those of the successor; and a
\* failure inside the branch is what the goroutine running the Conditional
\* comes back with.
C13_TrueBranchThenSuccessor ==
  InRun => \A c \in CondNodes :
    (PredTrue(c) /\ heap[c].branch # NIL) =>
      LET X == heap[c].branch
          succ == IF heap[c].next = NIL THEN {} ELSE Sub(heap[c].next)
      IN /\ \/ Started(X)
            \/ \E a \in Activations : chans[a].node = X
            \/ Kind(X) \in {"seq", "flow"}
         /\ StartedIn(succ) =>
              /\ CompletedOk(Sub(X))
              /\ \A n \in TopChain(X) : Kind(n) = "do" => FnCalled(n)
         /\ \A p, r \in Events :
              (log[p].node \in Sub(X) /\ log[r].node \in succ) => p < r
         /\ \A p \in Events :
              (Failed(log[p]) /\ log[p].node \in Sub(X))
                => Outcome(log[p].t) = ErrOf(log[p])

\* If("c", pred, X).Do("y", fy): pred returned true, X's function was called
\* and succeeded, then fy was called
C13_Witness ==
  /\ InRun
  /\ \E c \in CondNodes :
       /\ PredTrue(c) /\ heap[c].branch # NIL /\ heap[c].next # NIL
       /\ Kind(heap[c].branch) = "do"
       /\ \E p, r \in Events :
            /\ p < r
            /\ log[p].ev = "fn" /\ log[p].node = heap[c].branch /\ log[p].ok
            /\ log[r].ev = "fn" /\ log[r].node = heap[c].next

\* ---- C14 ----
\* registering interceptor i on f before or after the builder call gives
\* the same flow
SameBeforeOrAfter(f, i) ==
  /\ CanAlloc =>
       /\ Flow_Do(Flow_AddNodeInterceptor(heap, f, i), f)
            = Flow_AddNodeInterceptor(Flow_Do(heap, f), f, i)
       /\ Flow_Do(Flow_AddFlowInterceptor(heap, f, i), f)
            = Flow_AddFlowInterceptor(Flow_Do(heap, f), f, i)
       /\ \A b \in (free \ {f}) \cup {NIL} :
            /\ Flow_If(Flow_AddNodeInterceptor(heap, f, i), f, b)
                 = Flow_AddNodeInterceptor(Flow_If(heap, f, b), f, i)
            /\ Flow_If(Flow_AddFlowInterceptor(heap, f, i), f, b)
                 = Flow_AddFlowInterceptor(Flow_If(heap, f, b), f, i)
  /\ \A n \in free \ {f} :
       /\ Flow_Then(Flow_AddNodeInterceptor(heap, f, i), f, n)
            = Flow_AddNodeInterceptor(Flow_Then(heap, f, n), f, i)
       /\ Flow_Then(Flow_AddFlowInterceptor(heap, f, i), f, n)
            = Flow_AddFlowInterceptor(Flow_Then(heap, f, n), f, i)
\* the interceptors of the calls in l, in call order
IntsOf(l) == [j \in 1..Len(l) |-> l[j].i]
\* the calls of the flow-level interceptors of flow f
FlowIntLog(f) == SelectSeq(log, LAMBDA e : e.ev = "flowint" /\ e.node = f)

C15_ErrorReturnedVerbatim ==
  InRun => \A p \in Events :
    (log[p].t = 1 /\ Failed(log[p])) =>
      /\ MainDone /\ threads[1].stack = <<>>
      /\ Result = ErrOf(log[p])
      /\ \A r \in Events : (log[r].t = 1 /\ r # p) => (r < p /\ ~Failed(log[r]))

\* the function of an Action node inside a Sequence that is the branch of a
\* Conditional failed, and Run returned its error
C15_Witness ==
  /\ MainDone
  /\ \E p \in Events :
       /\ log[p].t = 1 /\ log[p].ev = "fn" /\ ~log[p].ok
       /\ Result = FnErr(log[p].node)
       /\ \E c \in CondNodes :
            /\ heap[c].branch # NIL /\ Kind(heap[c].branch) = "seq"
            /\ log[p].node \in Range(heap[heap[c].branch].nodes)

\* ---- C16 ----
\* head and tail of f are both unset, or tail is on the chain from head and
\* has no successor
TailIsLast(f) ==
  \/ heap[f].head = NIL /\ heap[f].tail = NIL
  \/ /\ heap[f].head # NIL /\ heap[f].tail # NIL
     /\ heap[f].tail \in Range(ChainOf(f))
     /\ heap[heap[f].tail].next = NIL

ChainIsSimple(f) ==
  LET c == ChainOf(f)
  IN /\ Len(c) <= MaxNodes
     /\ \A j, k \in 1..Len(c) : j # k => c[j] # c[k]
     /\ IF c = <<>> THEN heap[f].tail = NIL ELSE c[Len(c)] = heap[f].tail

\* C17: after any sequence of builder calls, also ones that pass a node or
\* flow already appended or the flow itself, the chain of every flow is
\* finite, visits no node twice and ends at the flow's tail.
C17_ChainIsSimple == \A f \in Flows : ChainIsSimple(f)

\* ---- C18 ----
\* the first m calls of the run are the first m flow-level interceptors of
\* the root flow, in registration order, each with a nil node
FlowIntsFirst(m) ==
  \A p \in 1..m :
    /\ log[p].ev = "flowint" /\ log[p].t = 1 /\ log[p].node = Root
    /\ log[p].i = heap[Root].flowInterceptors[p]
    /\ log[p].arg = NIL

HasReported(t) ==
  /\ threads[t].role = "unit" /\ UnitErr(t) # NilErr
  /\ threads[t].fin \/ Top(t).pc = "wgdone"
\* the number of errors parallelNode.run has taken from the channel of
\* activation a
Received(a) == Cardinality({t \in Units(a) : HasReported(t)}) - Len(chans[a].buf)
\* the goroutine that runs the Parallel node takes a value from the channel
\* of activation a
Receives(a) == Len(chans'[a].buf) < Len(chans[a].buf)

\* C19: distinct units report distinct errors, and parallelNode.run takes at
\* most one error from the channel: when it takes one, nothing was taken
\* before, so the channel holds every error reported so far in the order of
\* reporting, and the goroutine running the node comes back with the first
\* of them, whatever the positions of the failing units in the list; and a
\* failing unit that has not reported yet can always report next, so each
\* failing unit can be the first.
C19_FirstReportedErrorWins ==
  /\ [](InRun => \A a \in Activations :
          /\ Received(a) \in {0, 1}
          /\ \A t, u \in Units(a) :
               (t # u /\ UnitErr(t) # NilErr) => UnitErr(t) # UnitErr(u)
          /\ \A t \in Units(a) : AtPc(t, "send") => ENABLED Send(t))
  /\ [][InRun => \A a \in Activations :
          Receives(a) =>
            /\ Received(a) = 0
            /\ Outcome(chans[a].owner)' = Head(chans[a].buf)]_vars

\* both units failed; the unit listed second reported first and its error
\* is the result, the error of the unit listed first is left in the channel
C19_Witness ==
  /\ InRun /\ HeadPar /\ MainDone
  /\ \E a \in Activations : \E t, u \in Units(a) :
       /\ t < u
       /\ HasReported(t) /\ HasReported(u)
       /\ Result = UnitErr(u)
       /\ chans[a].buf = <<UnitErr(t)>>

\* ---- C20 ----
\* every goroutine of the run has terminated
AllTerminated == InRun /\ \A t \in Threads : threads[t].fin

\* C20: for every activation of a Parallel node: the channel's capacity is
\* the number of sub-nodes, at most that many units exist, the errors
\* waiting in the channel are at most as many as the units that have
\* reported (one each) and never more than the capacity, and a unit that is
\* about to report finds room in the channel, also after parallelNode.run
\* has returned; and when the scheduler never stops while a goroutine can
\* step, every unit, every closer goroutine and Run itself terminate.
C20_NoUnitBlocked ==
  /\ [](InRun => \A a \in Activations :
          /\ chans[a].cap = Len(heap[chans[a].node].nodes)
          /\ Cardinality(Units(a)) <= chans[a].cap
          /\ Len(chans[a].buf) <= Cardinality({t \in Units(a) : HasReported(t)})
          /\ Len(chans[a].buf) <= chans[a].cap
          /\ \A t \in Units(a) : AtPc(t, "send") => Len(chans[a].buf) < chans[a].cap)
  /\ (InRun ~> AllTerminated)

\* Run returned the first error; the other failing unit reported after
\* that, and every goroutine has terminated with that error left in the
\* closed channel
C20_Witness ==
  /\ AllTerminated /\ Result # NilErr
  /\ \E a \in Activations :
       /\ chans[a].closed /\ Len(chans[a].buf) = 1
       /\ Cardinality(Units(a)) = 2
       /\ \A t \in Units(a) : HasReported(t)

\* ---- C21 ----
\* every goroutine has terminated and every Parallel node that ran has
\* started all its units, seen them finish and had its channel closed
AllClosed ==
  /\ AllTerminated
  /\ \A a \in Activations :
       /\ chans[a].closed /\ chans[a].wg = 0
       /\ Cardinality(Units(a)) = Len(heap[chans[a].node].nodes)

\* C21: a run is never stuck: as long as a goroutine of the run has not
\* terminated, some goroutine can take a step; and when the scheduler never
\* stops while a goroutine can step, Run returns, and every channel of a
\* Parallel node is closed after all its units have finished, for Parallel
\* nodes of any number of sub-nodes (zero included) and any number of
\* failing units.
C21_RunTerminates ==
  /\ []((InRun /\ ~AllTerminated) => ENABLED RunStep)
  /\ (InRun ~> MainDone)
  /\ (InRun ~> AllClosed)

\* Run of a flow headed by a Parallel node without sub-nodes has returned
\* nil, the closer goroutine has closed the channel
C21_Witness ==
  /\ AllClosed /\ HeadPar /\ Result = NilErr
  /\ heap[heap[Root].head].nodes = <<>>
  /\ \E a \in Activations : chans[a].node = heap[Root].head /\ chans[a].cap = 0

\* ---- C22 ----
\* the goroutine of the run call that made channel a takes a step
OwnerSteps(a) == threads'[chans[a].owner] # threads[chans[a].owner]

\* C22: every run call of a Parallel node works on the channel it made
\* itself, and that channel belongs to its node; a unit runs a sub-node of
\* the node whose run call started it; every error waiting in a channel was
\* reported by a unit of that channel's run call; units and closer are
\* started by the call that made their channel; and the error a run call
\* takes from its channel and returns is the error of one of its own units.
\* This holds when two callers Run the same flow at once and when Parallel
\* nodes are nested.
C22_ErrorStatePrivate ==
  /\ [](InRun =>
          /\ \A t \in Threads : \A j \in 1..Len(threads[t].stack) :
               LET fr == threads[t].stack[j]
               IN (fr.fn = "parallelNode.run" /\ fr.aid # 0) =>
                    chans[fr.aid].owner = t /\ chans[fr.aid].node = fr.node
          /\ \A a \in Activations :
               /\ \A t \in Units(a) :
                    ~threads[t].fin =>
                      threads[t].stack[1].node \in Range(heap[chans[a].node].nodes)
               /\ \A j \in 1..Len(chans[a].buf) :
                    \E t \in Units(a) : HasReported(t) /\ UnitErr(t) = chans[a].buf[j])
  /\ [][InRun =>
          /\ \A u \in (Len(threads) + 1)..Len(threads') :
               threads'[u].role \in {"unit", "closer"} => OwnerSteps(threads'[u].aid)
          /\ \A a \in Activations :
               Receives(a) =>
                 /\ OwnerSteps(a)
                 /\ Outcome(chans[a].owner)' = Head(chans[a].buf)
                 /\ \E t \in Units(a) : HasReported(t) /\ UnitErr(t) = Head(chans[a].buf)]_vars

\* two callers have run the same Parallel node at once: the call whose unit
\* failed returned that error, the other call returned nil
C22_Witness ==
  /\ InRun
  /\ \E a, b \in Activations :
       /\ a # b /\ chans[a].node = chans[b].node
       /\ threads[chans[a].owner].role = "main" /\ threads[chans[b].owner].role = "main"
       /\ threads[chans[a].owner].fin /\ threads[chans[b].owner].fin
       /\ threads[chans[a].owner].ret # NilErr
       /\ threads[chans[b].owner].ret = NilErr

\* ---- C23 ----
\* what the claim says A.Then(B) makes of the heap, B being a flow
SpliceOf(A, B) ==
  IF heap[B].head = NIL THEN heap
  ELSE IF heap[A].head = NIL
       THEN [heap EXCEPT ![A].head = heap[B].head, ![A].tail = heap[B].tail]
       ELSE [[heap EXCEPT ![heap[A].tail].next = heap[B].head]
               EXCEPT ![A].tail = heap[B].tail]
\* head, tail and every node on the chain of flow f are nodes, not flows
NoFlowOnChain(f) ==
  /\ heap[f].head # NIL => Kind(heap[f].head) # "flow"
  /\ heap[f].tail # NIL => Kind(heap[f].tail) # "flow"
  /\ \A n \in Range(ChainOf(f)) : Kind(n) # "flow"

\* C23: for all flows A and B, A.Then(B) leaves everything unchanged when
\* B's chain is empty, makes A's head and tail B's head and tail when A is
\* empty, and otherwise sets the next link of A's old tail to B's head and
\* A's tail to B's tail, changing nothing else; and after any builder calls
\* no flow has a Flow as head, as tail or on the chain from its head.
C23_ThenSplicesFlow ==
  /\ Building => \A A, B \in Flows : Flow_Then(heap, A, B) = SpliceOf(A, B)
  /\ \A f \in Flows : NoFlowOnChain(f)

\* the root flow, holding a node of its own, after Then with a non-empty
\* flow: its chain is its node followed by the other flow's chain
C23_Witness ==
  /\ heap[Root].head # NIL
  /\ \E g \in Flows \ {Root} :
       /\ heap[g].head # NIL /\ heap[g].head # heap[Root].head
       /\ heap[heap[Root].head].next = heap[g].head
       /\ heap[Root].tail = heap[g].tail
       /\ ChainOf(Root) = <<heap[Root].head>> \o ChainOf(g)

\* ---- C24 ----
\* the chain from f's head in heap h
ChainIn(h, f) == Chain(h, h[f].head, MaxNodes + 3)
\* A and B are distinct flows with well-formed chains that share no node,
\* B's not empty
Separate(A, B) ==
  /\ A # B /\ heap[B].head # NIL
  /\ ChainIsSimple(A) /\ ChainIsSimple(B)
  /\ Range(ChainOf(A)) \cap Range(ChainOf(B)) = {}
\* A.Then(B) from this state, then A.Do(x), then B.Do(y)
AfterSplice(A, B) ==
  LET h1 == Flow_Then(heap, A, B)
      x == Len(h1) + 1
      h2 == Flow_Do(h1, A)
      y == Len(h2) + 1
      h3 == Flow_Do(h2, B)
      t == heap[B].tail
  IN /\ h1[B] = heap[B]
     /\ ChainIn(h1, A) = ChainOf(A) \o ChainOf(B)
     /\ h2[B] = heap[B]
     /\ h2[t].next = x
     /\ ChainIn(h2, B) = Append(ChainOf(B), x)
     /\ h3[t].next = y /\ h3[B].tail = y
     /\ h3[A].tail = x
     /\ x \notin Range(ChainIn(h3, A))
     /\ ChainIn(h3, A) = ChainOf(A) \o Append(ChainOf(B), y)
\* B was spliced into A and A has appended node x since
SplicedAndExtended(A, B, x) ==
  /\ A # B /\ heap[B].head # NIL
  /\ ChainIsSimple(A) /\ heap[A].tail = x
  /\ heap[B].head \in Range(ChainOf(A))
  /\ heap[heap[B].tail].next = x

\* C24: for flows A and B with separate chains, A.Then(B) leaves B's head,
\* tail and interceptor lists as they were and puts B's own nodes on A's
\* chain; an append to A after that sets the next link of B's tail, so the
\* chain from B's head runs on into A's new node; an append to B after that
\* overwrites that link: A's new node is no longer on the chain from A's
\* head, though it is still A's tail.
C24_SpliceSharesNodes ==
  Building =>
    /\ \A A, B \in Flows : Separate(A, B) => AfterSplice(A, B)
    /\ \A A, B \in Flows : \A x \in 1..Len(heap) :
         SplicedAndExtended(A, B, x) =>
           LET h3 == Flow_Do(heap, B)
           IN /\ h3[heap[B].tail].next = Len(heap) + 1
              /\ h3[A].tail = x
              /\ x \notin Range(ChainIn(h3, A))

\* B was spliced into the root flow, then the root flow appended a node:
\* B's tail is unchanged and now has that node as next
C24_Witness ==
  /\ Building
  /\ \E B \in Flows \ {Root} :
       /\ SplicedAndExtended(Root, B, heap[Root].tail)
       /\ heap[Root].head = heap[B].head
       /\ heap[B].tail # heap[Root].tail

\* ---- C25 ----
NonNil(args) == SelectSeq(args, LAMBDA n : n # NIL)
ListNodes == {q \in 1..Len(heap) : Kind(q) \in {"seq", "par"}}

\* C25: no Sequence or Parallel node ever holds a nil sub-node; and every
\* call of InSequence or InParallel, whatever its arguments (none, only
\* nils, nils among nodes), makes a node whose sub-node list is the non-nil
\* arguments in their order.
C25_SubNodesNonNil ==
  /\ [](\A q \in ListNodes : NIL \notin Range(heap[q].nodes))
  /\ [][\A args \in ArgLists :
          (InSequence(args) \/ InParallel(args))
            => heap'[Len(heap) + 1].nodes = NonNil(args)]_vars

\* InSequence / InParallel were called with at least one node and with no
\* node at all (or only nils): a list node with sub-nodes and an empty one
C25_Witness ==
  \E q, r \in ListNodes : heap[q].nodes = <<>> /\ Len(heap[r].nodes) >= 1

\* ---- C26 ----
DoNodes == {n \in 1..Len(heap) : Kind(n) = "do"}
\* event number p is the call of a callback on behalf of node n
Concerns(p, n) ==
  \/ log[p].ev = "fn" /\ log[p].node = n
  \/ log[p].ev = "nodeint" /\ log[p].arg = n
Cancelled(p) == log[p].ev = "cancel"
\* the successor of the Parallel node at the head of the flow, or NIL
ParSuccessor == heap[heap[Root].head].next

\* the invocations made so far are in the order of a run with a live
\* context: flow interceptors first and in registration order, each node's
\* interceptors in registration order before its function, every function
\* at most once, the successor only after every unit
LiveOrder ==
  /\ \A p, q \in Events :
       log[p].ev = "flowint" /\ log[q].ev \in {"nodeint", "fn"} => p < q
  /\ \E k \in 0..Len(heap[Root].flowInterceptors) :
       IntsOf(FlowIntLog(Root)) = SubSeq(heap[Root].flowInterceptors, 1, k)
  /\ \A n \in DoNodes :
       /\ \E k \in 0..Len(heap[Root].nodeInterceptors) :
            IntsOf(IntLog(n)) = SubSeq(heap[Root].nodeInterceptors, 1, k)
       /\ FnCalled(n) => IntsOf(IntLog(n)) = heap[Root].nodeInterceptors
       /\ \A p, q \in Events :
            log[p].ev = "nodeint" /\ log[p].arg = n
              /\ log[q].ev = "fn" /\ log[q].node = n => p < q
       /\ Cardinality({p \in Events : log[p].ev = "fn" /\ log[p].node = n}) <= 1
  /\ \A p, q \in Events : \A n \in UnitNodes :
       Concerns(p, n) /\ Concerns(q, ParSuccessor) => p < q

\* C26: the engine's control flow does not depend on the state of the
\* context: whether the context given to Run is live, already cancelled, or
\* cancelled while the units of a Parallel node run, the run is never stuck,
\* invokes the interceptors and functions in the order of a run with a live
\* context, runs every unit of a Parallel node it has entered (none is
\* aborted: once every goroutine has ended, each unit's function was called
\* unless an interceptor rejected that unit), returns success iff no callback failed, with
\* the successor called, and otherwise returns the error of a callback
\* that failed, never an error of the context.
C26_ContextIgnored ==
  /\ (InRun /\ ~AllTerminated) => ENABLED RunStep
  /\ InRun => LiveOrder
  /\ \A p \in Events : Cancelled(p) => log[p].ok
  /\ AllTerminated /\ Activations # {}
       => \A n \in UnitNodes : FnCalled(n) \/ Rejected(n)
  /\ MainDone /\ AllOk
       => /\ Result = NilErr
          /\ \A n \in DoNodes : FnCalled(n)
  /\ MainDone /\ Result # NilErr
       => \E p \in Events : Failed(log[p]) /\ ErrOf(log[p]) = Result
  /\ MainDone /\ Result = NilErr => AllOk

\* the context was cancelled after one unit's function was called and before
\* the other's, both were called, and so was the successor: Run returned nil
C26_Witness ==
  /\ MainDone /\ Result = NilErr /\ ctx = "cancelled"
  /\ Cardinality(UnitNodes) = 2 /\ ParSuccessor # NIL /\ FnCalled(ParSuccessor)
  /\ \E p, c, q \in Events :
       /\ p < c /\ c < q /\ Cancelled(c)
       /\ log[p].ev = "fn" /\ log[q].ev = "fn"
       /\ {log[p].node, log[q].node} = UnitNodes

\* ---- C27 ----
\* the flows given as a Conditional's branch or as an entry of a Sequence or
\* Parallel node
Embedded ==
  {g \in 1..Len(heap) :
     /\ Kind(g) = "flow"
     /\ \E n \in 1..Len(heap) : g = heap[n].branch \/ g \in Range(heap[n].nodes)}
RECURSIVE ReachInFlow(_)
ReachInFlow(S) ==
  LET T == S \cup UNION {Refs(n) : n \in {m \in S : Kind(m) # "flow"}}
  IN IF T = S THEN S ELSE ReachInFlow(T)
\* the nodes flow g runs with its own interceptor list: its chain and their
\* branches and sub-nodes, down to the flows embedded in them
OwnNodes(g) ==
  {n \in ReachInFlow({heap[g].head} \ {NIL}) : Kind(n) # "flow"}
EventsOf(g) ==
  {p \in Events : log[p].node \in OwnNodes(g) \/ log[p].arg \in OwnNodes(g)}

\* C27: a flow g embedded as a branch or as a list entry ignores the node
\* interceptors of the enclosing flow: only g's own node interceptors are
\* called on g's nodes, all of them in registration order before a node's
\* function is called; g's flow interceptors run once, in registration
\* order, before anything else of g; and an embedded flow with an empty
\* chain invokes nothing, not even its flow interceptors, and succeeds: the
\* successor of the Conditional it is the branch of is run.
C27_EmbeddedFlowOwnInterceptors ==
  InRun =>
    \A g \in Embedded :
      /\ \A p \in Events :
           log[p].ev = "nodeint" /\ log[p].arg \in OwnNodes(g)
             => log[p].i \in Range(heap[g].nodeInterceptors)
      /\ \A n \in OwnNodes(g) :
           Kind(n) = "do" /\ FnCalled(n)
             => IntsOf(IntLog(n)) = heap[g].nodeInterceptors
      /\ \E k \in 0..Len(heap[g].flowInterceptors) :
           IntsOf(FlowIntLog(g)) = SubSeq(heap[g].flowInterceptors, 1, k)
      /\ EventsOf(g) # {}
           => /\ IntsOf(FlowIntLog(g)) = heap[g].flowInterceptors
              /\ \A p \in Events : \A q \in EventsOf(g) :
                   log[p].ev = "flowint" /\ log[p].node = g => log[p].ok /\ p < q
      /\ heap[g].head = NIL
           => /\ \A p \in Events : log[p].node # g /\ log[p].arg # g
              /\ \A c \in CondNodes :
                   /\ c = heap[Root].head /\ heap[c].branch = g
                   /\ heap[c].next # NIL /\ Kind(heap[c].next) = "do"
                   /\ PredTrue(c) /\ MainDone /\ NoIntFail
                   => FnCalled(heap[c].next)

\* the enclosing flow and the embedded flow each have one node interceptor,
\* and the embedded flow's Action was called after the embedded flow's
\* interceptor only
C27_Witness ==
  /\ MainDone
  /\ Len(heap[Root].nodeInterceptors) = 1
  /\ \E g \in Embedded : \E n \in OwnNodes(g) :
       /\ Len(heap[g].nodeInterceptors) = 1
       /\ heap[g].nodeInterceptors # heap[Root].nodeInterceptors
       /\ FnCalled(n)
       /\ IntsOf(IntLog(n)) = heap[g].nodeInterceptors

\* ---- C28 ----
\* The run methods of a flow without Parallel nodes, as one function of the
\* graph h and of the outcomes the callbacks give in call order (oks: an
\* interceptor's or function's success, a predicate's value).  A result s
\* holds the calls made (log), the outcomes not used yet (oks), the error
\* returned (err), and blk when the run needs an outcome oks does not have.
Halted(s) == s.blk \/ s.err # NilErr
Callback(s, ev, n, i, arg, err) ==
  IF s.oks = <<>> THEN [s EXCEPT !.blk = TRUE]
  ELSE [log |-> Append(s.log, Ev(ev, 1, n, i, arg, Head(s.oks))),
        oks |-> Tail(s.oks),
        err |-> IF Head(s.oks) \/ ev = "cond" THEN NilErr ELSE err,
        blk |-> FALSE]
\* for _, i := range interceptors { if err := i(ctx, n); err != nil { return err } }
RECURSIVE callInterceptors(_, _, _, _)
callInterceptors(s, n, ints, k) ==
  IF Halted(s) \/ k > Len(ints) THEN s
  ELSE callInterceptors(Callback(s, "nodeint", n, ints[k], n, IntErr(ints[k], n)),
                        n, ints, k + 1)
\* for _, i := range f.flowInterceptors { if err := i(ctx, nil); ... }
RECURSIVE callFlowInterceptors(_, _, _, _)
callFlowInterceptors(s, f, ints, k) ==
  IF Halted(s) \/ k > Len(ints) THEN s
  ELSE callFlowInterceptors(Callback(s, "flowint", f, ints[k], NIL, IntErr(ints[k], NIL)),
                            f, ints, k + 1)
RECURSIVE node_run(_, _, _, _)
RECURSIVE nodes_run(_, _, _, _, _)
\* if n.next != nil { return n.next.run(ctx, interceptors) }; return nil
next_run(h, n, ints, s) ==
  IF Halted(s) \/ h[n].next = NIL THEN s ELSE node_run(h, h[n].next, ints, s)
\* n.run(ctx, interceptors) for an Action, Conditional, Sequence or Flow n
node_run(h, n, ints, s) ==
  CASE h[n].kind = "do" ->
         LET s1 == callInterceptors(s, n, ints, 1)
             s2 == IF Halted(s1) THEN s1
                   ELSE Callback(s1, "fn", n, 0, NIL, FnErr(n))
         IN next_run(h, n, ints, s2)
    [] h[n].kind = "cond" ->
         LET s1 == callInterceptors(s, n, ints, 1)
             s2 == IF Halted(s1) THEN s1
                   ELSE Callback(s1, "cond", n, 0, NIL, NilErr)
             s3 == IF Halted(s2) THEN s2
                   ELSE IF s2.log[Len(s2.log)].ok /\ h[n].branch # NIL
                        THEN node_run(h, h[n].branch, ints, s2)
                        ELSE s2
         IN next_run(h, n, ints, s3)
    [] h[n].kind = "seq" ->
         next_run(h, n, ints, nodes_run(h, h[n].nodes, 1, ints, s))
    [] h[n].kind = "flow" ->
         IF h[n].head = NIL THEN s
         ELSE LET s1 == callFlowInterceptors(s, n, h[n].flowInterceptors, 1)
              IN IF Halted(s1) THEN s1
                 ELSE node_run(h, h[n].head, h[n].nodeInterceptors, s1)
    [] OTHER -> [s EXCEPT !.blk = TRUE]
\* for _, node := range n.nodes { if err := node.run(..); err != nil { return err } }
nodes_run(h, list, k, ints, s) ==
  IF Halted(s) \/ k > Len(list) THEN s
  ELSE nodes_run(h, list, k + 1, ints, node_run(h, list[k], ints, s))

NoParallel == \A n \in Sub(Root) : Kind(n) # "par"
\* what f.Run does, given the outcomes the callbacks have given so far
Rerun ==
  node_run(heap, Root, <<>>,
           [log |-> <<>>, oks |-> [p \in Events |-> log[p].ok],
            err |-> NilErr, blk |-> FALSE])

\* C28: Run never changes the flow: no step from the call of Run on changes
\* head, tail, a next link, a sub-node list or an interceptor list of any
\* node or flow, whether callbacks fail or not; and the run of a flow
\* without Parallel nodes is one goroutine whose sequence of calls and
\* whose result are a function of the flow and of the callbacks' outcomes:
\* they are what evaluating the run methods on the flow gives.
C28_RunLeavesFlowUnchanged ==
  /\ [][phase' = "run" => heap' = heap]_vars
  /\ [](InRun /\ NoParallel =>
          /\ Len(threads) = 1 /\ chans = <<>>
          /\ Rerun.log = log
          /\ MainDone <=> ~Rerun.blk
          /\ MainDone => Result = Rerun.err)

\* a flow with an interceptor and without Parallel node whose Run has
\* failed after at least two calls
C28_Witness ==
  /\ MainDone /\ NoParallel /\ Result # NilErr
  /\ Len(log) >= 2
  /\ heap[Root].flowInterceptors # <<>>

\* ---- C29 ----
EmptyList(q) == Kind(q) \in {"seq", "par"} /\ heap[q].nodes = <<>>
HeadEmpty == heap[Root].head # NIL /\ EmptyList(heap[Root].head)
\* the successor of the node at the head of the flow, or NIL
HeadSuccessor == heap[heap[Root].head].next

\* C29: a Parallel or Sequence node without sub-nodes is a pass-through.  A
\* Parallel node without sub-nodes starts no unit and receives no error.
\* When such a node is the head of the flow, Run returns; unless an
\* interceptor has failed it returns nil when the node has no successor,
\* only interceptors having been called,
\* and otherwise the successor is run (for a Parallel node: after the
\* node's channel was closed) and Run returns what the successor returns:
\* an Action successor's function is called and its error, or nil, is the
\* result of Run.
C29_EmptyListPassThrough ==
  /\ [](InRun =>
          /\ \A a \in Activations :
               EmptyList(chans[a].node)
                 => Units(a) = {} /\ chans[a].buf = <<>> /\ chans[a].cap = 0
          /\ HeadEmpty =>
               /\ HeadSuccessor = NIL => \A t \in Threads : threads[t].role # "unit"
               /\ HeadSuccessor # NIL /\ Started(HeadSuccessor)
                    /\ Kind(heap[Root].head) = "par"
                    => \E a \in Activations :
                         chans[a].node = heap[Root].head /\ chans[a].closed
               /\ MainDone /\ NoIntFail /\ HeadSuccessor = NIL
                    => /\ Result = NilErr
                       /\ \A p \in Events :
                            \/ log[p].ev = "flowint" /\ log[p].node = Root
                            \/ log[p].ev = "nodeint" /\ log[p].arg = heap[Root].head
               /\ MainDone /\ NoIntFail
                    /\ HeadSuccessor # NIL /\ Kind(HeadSuccessor) = "do"
                    => /\ FnCalled(HeadSuccessor)
                       /\ heap[HeadSuccessor].next = NIL
                            => Result = IF FnFailed(HeadSuccessor)
                                        THEN FnErr(HeadSuccessor) ELSE NilErr)
  /\ (InRun /\ HeadEmpty ~> MainDone)

\* a Parallel node without sub-nodes at the head of the flow, followed by an
\* Action whose function was called and failed: Run returned its error
C29_Witness ==
  /\ MainDone /\ HeadEmpty /\ Kind(heap[Root].head) = "par"
  /\ HeadSuccessor # NIL /\ Kind(HeadSuccessor) = "do"
  /\ FnFailed(HeadSuccessor) /\ Result = FnErr(HeadSuccessor)
  /\ \A t \in Threads : threads[t].role # "unit"

\* ---- C30 ----
Panicked == phase = "panicked"
AllFlows == {f \in 1..Len(heap) : Kind(f) = "flow"}

\* C30: Then called with a nil Node appends nothing: the call panics, and
\* the step that panics leaves head, tail and every next link of every flow
\* and node as they were; in particular no flow ever gets nil as its tail
\* while it has a head.
C30_ThenNilPanics ==
  /\ [][\A f \in Flows : ThenReused(f, NIL) => Panicked']_vars
  /\ [][Panicked' => heap' = heap /\ free' = free]_vars
  /\ [](\A f \in AllFlows : heap[f].head = NIL <=> heap[f].tail = NIL)

\* Then(nil) was called on a flow with at least two nodes on its chain
C30_Witness ==
  /\ Panicked
  /\ heap[Root].head # NIL /\ heap[Root].tail # heap[Root].head

\* ---- C31 ----
\* the MustRegister calls made so far for name n
RegisterCallsFor(n) == {i \in 1..Len(registerCalls) : registerCalls[i][1] = n}
Returned(c) == callers[c].pc = "done"

\* C31: for any interleaving of Counter calls that resolve to the same
\* name, MustRegister is called at most once for that name, and all the
\* calls that have returned have returned the same counter.
C31_RegisteredOnce ==
  /\ \A n \in Names : Cardinality(RegisterCallsFor(n)) <= 1
  /\ \A c, d \in Callers :
       Returned(c) /\ Returned(d) /\ callers[c].name = callers[d].name
         => callers[c].ret = callers[d].ret

====
